---- MODULE Spec2Model ----
(***************************************************************************)
(* Model of the data plane of the Qilbee mycelial network: the             *)
(* reinforcement engine (services/data_plane/reinforcement/main.py) and    *)
(* the propagation controller (services/data_plane/router/main.py) over    *)
(* the shared graph store (hyphae_edges, nutrient_routes,                  *)
(* nutrients_active).                                                      *)
(*                                                                         *)
(* Numbers.  Weights are Python floats in the source; here they are        *)
(* fixed-point integers in units of 10^-4 (0.01 is 100, 1.5 is 15000).     *)
(* Scores are in units of 10^-2 (1.0 is 100).  Time is in seconds.         *)
(* Every handler is a coroutine: each awaited database statement is one    *)
(* atomic step, and other requests may run between two steps.              *)
(***************************************************************************)
EXTENDS Integers, Sequences, FiniteSets, TLC

VARIABLES
    now,        \* wall clock of the store (NOW()), seconds
    edges,      \* table hyphae_edges: key <<tenant, src, dst>> -> row
    routes,     \* table nutrient_routes: append-only sequence of rows
    nutrients,  \* table nutrients_active: set of rows
    rep,        \* record_outcome requests in flight, one per worker
    dec,        \* run_time_decay runs in flight (background task, manual trigger)
    lastPrune,  \* outcome of the last prune request
    serial,     \* history: per edge, the state a serialized credit log would give
    interfered, \* history: a decay run saw another writer touch the edge table
    used,       \* how many requests of each kind have been issued
    agents,     \* collection agents of the document store: _id -> document
    edgeCache,  \* _cached_edge_count of the router process
    brd,        \* broadcast_nutrient requests in flight, one per worker
    memory,     \* table hyphal_memory: id -> row
    lastRead,   \* the last response of a read operation on hyphal memory
    limiterRedis, \* RateLimiter._redis: whether the limiter holds a cache client
    rateKeys,   \* the sorted sets of the rate-limit cache: key -> scores and expiry
    lastCheck,  \* the last answer of check_rate_limit
    allowedLog, \* history: the requests the limiter allowed on a cache answer
    routing,    \* a call of the routing algorithm: its arguments and its result
    decayTask,  \* _decay_task of the reinforcement engine: the background task
    server,     \* the reinforcement process: running, or how far its shutdown is
    apiKeys,    \* table api_keys: id -> row
    rot,        \* the rotate_key request in flight
    lastValidation, \* the last answer of APIKeyValidator.validate
    rejected,   \* history: the keys validation rejected as expired or not active
    adminTenant, \* table tenants: whether it holds the row of the admin tenant
    boot,       \* bootstrap_admin_key calls in flight, one per worker
    bootKeys,   \* history: the keys bootstrap_admin_key has returned
    lastRegister \* the register_agent request in flight, and its answer

vars == <<now, edges, routes, nutrients, rep, dec, lastPrune, serial, interfered, used,
          agents, edgeCache, brd, memory, lastRead,
          limiterRedis, rateKeys, lastCheck, allowedLog, routing, decayTask, server,
          apiKeys, rot, lastValidation, rejected,
          adminTenant, boot, bootKeys, lastRegister>>

routerVars == <<agents, edgeCache, brd>>

memVars == <<memory, lastRead>>

\* the state of the shared services (services/shared)
limVars == <<limiterRedis, rateKeys, lastCheck, allowedLog>>

sharedVars == <<limVars, routing>>

lifeVars == <<decayTask, server>>

keyVars == <<apiKeys, rot, lastValidation, rejected>>

\* the admin bootstrap (services/shared/startup.py) and agent registration
ctlVars == <<adminTenant, boot, bootKeys, lastRegister>>

(***************************************************************************)
(* Bounds of the model.                                                    *)
(***************************************************************************)
MaxReports == 2
MaxDecays == 1
MaxPrunes == 1
MaxAdvance == 2
MaxBroadcasts == 2
MaxRequests == 5
MaxStores == 2
MaxReads == 2
MaxCleanups == 1
MaxChecks == 3
MaxFailures == 2
MaxKeyOps == 2
MaxValidations == 2
MaxBoots == 2
MaxRegisters == 2

Tenants == {"tX", "tY"}
AgentIds == {"A", "B"}
RepProcs == {"r1", "r2"}
\* run_time_decay runs one at a time here: the background task's tick or a
\* manual trigger, which execute the same function
DecProcs == {"tick"}
Scores == {0, 100}
UnknownTrace == "tr-none"

Hour == 3600
Day == 86400
TimeSteps == {1800, 30 * Day}

(***************************************************************************)
(* Program constants (reinforcement/main.py), fixed point.                 *)
(***************************************************************************)
ALPHA_POS == 800
ALPHA_NEG == 400
LAMBDA_DECAY == 20
MIN_WEIGHT == 100
MAX_WEIGHT == 15000
TIME_DECAY_LAMBDA == 100
STALE_EDGE_MIN_WEIGHT == 200
STALE_EDGE_MAX_AGE_DAYS == 30
INITIAL_WEIGHT == 1000
WeightUnit == 10 ^ 4
ScoreUnit == 10 ^ 2

(***************************************************************************)
(* Pure functions of the reinforcement engine.                             *)
(***************************************************************************)
Max2(a, b) == IF a >= b THEN a ELSE b
Min2(a, b) == IF a <= b THEN a ELSE b

\* a delta without the constant decay term
calculate_weight_delta_no_decay(outcome_score, current_weight) ==
    (ALPHA_POS * outcome_score - ALPHA_NEG * (ScoreUnit - outcome_score)) \div ScoreUnit

\* calculate_weight_delta: alpha_pos * o - alpha_neg * (1 - o) - lambda_decay.
\* The current weight is a parameter of the source function and is not used.
calculate_weight_delta(outcome_score, current_weight) ==
    (ALPHA_POS * outcome_score - ALPHA_NEG * (ScoreUnit - outcome_score)) \div ScoreUnit
        - LAMBDA_DECAY

\* a clamp_weight that returns its argument as it is
clamp_weight_unbounded(weight) == weight

clamp_weight(weight) == Max2(MIN_WEIGHT, Min2(MAX_WEIGHT, weight))

\* math.exp(-x) for x = TIME_DECAY_LAMBDA * days, as a fixed-point Taylor sum.
\* x4 is x in units of 10^-4; the result is in units of 10^-4.
RECURSIVE ExpSeries(_, _, _)
ExpSeries(x4, k, term) ==
    IF k > 8 \/ term = 0 THEN 0
    ELSE LET next == (term * x4) \div (WeightUnit * k)
         IN  (IF k % 2 = 1 THEN 0 - next ELSE next) + ExpSeries(x4, k + 1, next)

ExpNeg(x4) == Max2(0, WeightUnit + ExpSeries(x4, 1, WeightUnit))

\* calculate_time_decay: w * e^(-lambda_time * days); age is given in seconds
\* (the query computes days_stale = seconds / 86400.0).
calculate_time_decay(current_weight, age_sec) ==
    (current_weight * ExpNeg((TIME_DECAY_LAMBDA * age_sec) \div Day)) \div WeightUnit

(***************************************************************************)
(* Rows and request records.                                               *)
(***************************************************************************)

EdgeRow(w, sim, rs, rd, lu) ==
    [w |-> w, sim |-> sim, r_success |-> rs, r_decay |-> rd, last_update |-> lu]

RouteRow(t, n, tr, s, d, h, sc) ==
    [tenant |-> t, nutrient |-> n, trace |-> tr, src |-> s, dst |-> d,
     hop |-> h, routing_score |-> sc, outcome_score |-> -1]

NoSnap == [w |-> 0, r_success |-> 0, r_decay |-> 0]

\* rows: the fetched route rows not yet credited (positions in the route log;
\* the columns read from them never change); cur: the row being credited
IdleRep ==
    [pc |-> "idle", tenant |-> "-", trace |-> "-", score |-> 0, hops |-> {},
     rows |-> {}, cur |-> 0, edge |-> NoSnap, status |-> 0]

\* rows: the fetched edge rows not yet processed, as read by the query;
\* start, t0: the edge table and the clock when the query ran (history)
IdleDec ==
    [pc |-> "idle", rows |-> {}, decayed |-> 0, deleted |-> 0, start |-> <<>>, t0 |-> 0]

\* a request that has been answered: the handler's locals are gone
Responded(t, tr, code) ==
    [IdleRep EXCEPT !.pc = "done", !.tenant = t, !.trace = tr, !.status = code]

\* hop_outcomes: at most one score per agent
NoHops == {}

\* a lookup that ignores the per-agent map
get_agent_score_uniform(score, hops, agent_id) == score

\* OutcomeRequest.get_agent_score
get_agent_score(score, hops, agent_id) ==
    IF hops # {} /\ (\E h \in hops : h[1] = agent_id)
    THEN (CHOOSE h \in hops : h[1] = agent_id)[2]
    ELSE score

Without(f, k) == [x \in DOMAIN f \ {k} |-> f[x]]

(***************************************************************************)
(* The store when the services start: it holds the route records of two    *)
(* earlier broadcasts of tenant tX (the first routed to the neighbor B as   *)
(* well), the records of a trace tr-0 that went a second hop (its hop-1    *)
(* record stored first), and the edge A->A, credited since its creation    *)
(* either twice with score 0 (1000 - 2 * 420) or seventeen times with      *)
(* score 1 (1000 + 17 * 780).                                              *)
(***************************************************************************)
SeedRoutes ==
    << RouteRow("tX", "n1", "tr-1", "A", "A", 0, 100),
       RouteRow("tX", "n1", "tr-1", "A", "B", 0, 60),
       RouteRow("tX", "n2", "tr-2", "A", "A", 0, 100),
       RouteRow("tX", "n0", "tr-0", "B", "A", 1, 50),
       RouteRow("tX", "n0", "tr-0", "A", "B", 0, 60) >>

SeedEdgeTables ==
    { (<<"tX", "A", "A">> :> EdgeRow(160, 0, 0, 200, 0)),
      (<<"tX", "A", "A">> :> EdgeRow(14260, 0, 1700, 0, 0)) }

\* Embeddings are 1536-dimensional unit vectors in the source; here they are
\* named vectors: two orthogonal unit vectors, the negative of the first, and
\* the zero vector.
Vectors == {"e1", "e2", "-e1", "zero"}

\* agent documents as register_agent writes them (router/main.py 686-711):
\* the metrics of a registered agent carry no recent_tasks
AgentDoc(t, emb, caps) ==
    [tenant_id |-> t, embedding |-> emb, capabilities |-> caps, recent_tasks |-> <<>>]

SeedAgents ==
    ("A" :> AgentDoc("tX", "e1", {"db", "sql"})) @@ ("B" :> AgentDoc("tX", "e2", {}))

NoTime == -1

\* the quota limits of a tenant, in the shape QuotaChecker.within_quota reads
\* them: broadcasts per minute and cost units per hour
TenantQuota == [msg_min |-> 1, kb_hour |-> 100]

BrdProcs == {"b1"}

\* found: the edge rows read for the source agent; neighbors: the Neighbor
\* objects built from them; sel: the selection still to be recorded;
\* over: the request was well-formed and arrived with the tenant's quota
\* exhausted (history)
IdleBrd ==
    [pc |-> "idle", tenant |-> "-", src |-> "-", emb |-> "zero", hints |-> <<>>,
     ttl |-> 0, max_hops |-> 0, cost |-> 0, nutrient |-> "-", trace |-> "-",
     limit |-> 0, found |-> {}, neighbors |-> {}, sel |-> <<>>, routed |-> <<>>,
     status |-> 0, over |-> FALSE]

\* no read of hyphal memory has been answered yet
\* fetched, top_k, diversify and source_agents are those of a collect: the
\* rows its statement returned, in order, its request, and its answer
NoRead ==
    [op |-> "-", tenant |-> "-", at |-> 0, status |-> 0, rows |-> {},
     fetched |-> <<>>, top_k |-> 0, diversify |-> FALSE, source_agents |-> <<>>]

\* no rate-limit check has been answered yet; failed: the cache was not
\* connected or an operation on it raised (history)
NoCheck ==
    [tenant |-> "-", limit |-> 0, at |-> 0, allowed |-> FALSE, remaining |-> 0,
     retry_after |-> 0, failed |-> FALSE, count |-> 0]

\* no rotate_key request is in flight
IdleRot == [pc |-> "idle", key_id |-> "-", grace_period_sec |-> 0, tenant |-> "-", status |-> 0]

\* no bootstrap_admin_key call is in flight
IdleBoot == [pc |-> "idle", result |-> "-"]

BootProcs == {"w1", "w2"}

\* register_agent has not been called
NoRegister ==
    [pc |-> "idle", tenant |-> "-", agent_id |-> "-", embedding |-> "zero", capabilities |-> {},
     region |-> {}, existing |-> FALSE, status |-> 0]

\* the routing algorithm has not been called
NoRouting ==
    [pc |-> "-", scored |-> <<>>, k |-> 0, emb |-> "zero", hints |-> <<>>, neighbors |-> {},
     explore |-> FALSE, out |-> <<>>]

SerialOf(tbl) ==
    [k \in DOMAIN tbl |->
        [w |-> tbl[k].w, r_success |-> tbl[k].r_success, r_decay |-> tbl[k].r_decay,
         pure |-> TRUE, fresh |-> FALSE]]

\* log: the route records the store holds at the start
InitLog(tbl, docs, mem, log) ==
    /\ now = 0
    /\ edges = tbl
    /\ routes = log
    /\ nutrients = {}
    /\ rep = [p \in RepProcs |-> IdleRep]
    /\ dec = [d \in DecProcs |-> IdleDec]
    /\ lastPrune = [status |-> 0, pruned |-> 0]
    /\ serial = SerialOf(edges)
    /\ interfered = [d \in DecProcs |-> FALSE]
    /\ used = [reports |-> 0, decays |-> 0, prunes |-> 0, advances |-> 0, broadcasts |-> 0,
               stores |-> 0, reads |-> 0, cleanups |-> 0, checks |-> 0, keyops |-> 0,
               validations |-> 0, boots |-> 0, registers |-> 0]
    /\ agents = docs
    /\ edgeCache = [count |-> 0, updated_at |-> NoTime]
    /\ brd = [b \in BrdProcs |-> IdleBrd]
    /\ memory = mem
    /\ lastRead = NoRead
    /\ limiterRedis = FALSE
    /\ rateKeys = <<>>
    /\ lastCheck = NoCheck
    /\ allowedLog = <<>>
    /\ decayTask = [alive |-> TRUE, cancelling |-> FALSE, failures |-> 0]
    /\ server = "running"
    /\ apiKeys = <<>>
    /\ rot = IdleRot
    /\ lastValidation = [key |-> "-", valid |-> FALSE, at |-> 0]
    /\ rejected = {}
    /\ adminTenant = TRUE
    /\ boot = [w \in BootProcs |-> IdleBoot]
    /\ bootKeys = {}
    /\ lastRegister = NoRegister

InitBase(tbl, docs, mem) == InitLog(tbl, docs, mem, SeedRoutes)

InitAll(tbl, docs, mem) == InitBase(tbl, docs, mem) /\ routing = NoRouting

InitWith(tbl, docs) == InitAll(tbl, docs, <<>>)

InitStore(tbl) == InitWith(tbl, SeedAgents)

Init == \E tbl \in SeedEdgeTables : InitStore(tbl)

\* the requests issued so far, of all kinds
Issued ==
    used.reports + used.decays + used.prunes + used.advances + used.broadcasts
        + used.stores + used.reads + used.cleanups + used.checks + used.keyops
        + used.validations + used.boots + used.registers

\* every decay run in progress other than self has now seen a foreign write
Disturb(self) ==
    [d \in DecProcs |-> interfered[d] \/ (d # self /\ dec[d].pc = "loop")]

(***************************************************************************)
(* record_outcome  (POST /v1/outcomes:record)                              *)
(***************************************************************************)
\* The route rows SELECTed for a trace: WHERE trace_id = $1 (no tenant filter)
RoutesOfTrace(tr) == {n \in 1..Len(routes) : routes[n].trace = tr}

\* a query without ORDER BY: any remaining row can come next
NextRowsUnordered(rows) == rows

\* ORDER BY hop_number ASC: the next row of the loop is a remaining row of
\* least hop number; rows of equal hop come in an order the store chooses
NextRows(rows) == {n \in rows : \A m \in rows : routes[n].hop <= routes[m].hop}

\* an edge key with source and destination of the route swapped
RepKeyReversed(p) == <<rep[p].tenant, routes[rep[p].cur].dst, routes[rep[p].cur].src>>

RepKey(p) == <<rep[p].tenant, routes[rep[p].cur].src, routes[rep[p].cur].dst>>

RepHopScore(p) == get_agent_score(rep[p].score, rep[p].hops, routes[rep[p].cur].dst)

\* lines 255-280: a worker that is free (pc idle, or done: its last response
\* has been sent and stays visible in status) takes a request and fetches the
\* routes of the trace; 404 when there are none
\* a fetch whose 404 is caught by the handler's generic except (no
\* "except HTTPException: raise" before it) and answered 500
OutcomeFetchSwallowing(p, t, tr, sc, hm) ==
    /\ rep[p].pc \in {"idle", "done"}
    /\ used.reports < MaxReports
    /\ Issued < MaxRequests
    /\ used' = [used EXCEPT !.reports = @ + 1]
    /\ IF RoutesOfTrace(tr) = {}
       THEN rep' = [rep EXCEPT ![p] = Responded(t, tr, 500)]
       ELSE \E n \in NextRows(RoutesOfTrace(tr)) :
              rep' = [rep EXCEPT ![p] =
                        [IdleRep EXCEPT !.pc = "select", !.tenant = t, !.trace = tr,
                                        !.score = sc, !.hops = hm,
                                        !.rows = RoutesOfTrace(tr) \ {n}, !.cur = n]]
    /\ UNCHANGED <<now, edges, routes, nutrients, dec, lastPrune, serial, interfered, routerVars, memVars,
                   sharedVars, lifeVars, keyVars, ctlVars>>

OutcomeFetch(p, t, tr, sc, hm) ==
    /\ rep[p].pc \in {"idle", "done"}
    /\ used.reports < MaxReports
    /\ Issued < MaxRequests
    /\ used' = [used EXCEPT !.reports = @ + 1]
    /\ IF RoutesOfTrace(tr) = {}
       THEN rep' = [rep EXCEPT ![p] = Responded(t, tr, 404)]
       ELSE \E n \in NextRows(RoutesOfTrace(tr)) :
              rep' = [rep EXCEPT ![p] =
                        [IdleRep EXCEPT !.pc = "select", !.tenant = t, !.trace = tr,
                                        !.score = sc, !.hops = hm,
                                        !.rows = RoutesOfTrace(tr) \ {n}, !.cur = n]]
    /\ UNCHANGED <<now, edges, routes, nutrients, dec, lastPrune, serial, interfered, routerVars, memVars,
                   sharedVars, lifeVars, keyVars, ctlVars>>

\* lines 283-292: read the edge of the current route under the caller's tenant
OutcomeSelectEdge(p) ==
    /\ rep[p].pc = "select"
    /\ rep' = [rep EXCEPT ![p] =
                IF RepKey(p) \in DOMAIN edges
                THEN [@ EXCEPT !.pc = "update",
                               !.edge = [w |-> edges[RepKey(p)].w,
                                         r_success |-> edges[RepKey(p)].r_success,
                                         r_decay |-> edges[RepKey(p)].r_decay]]
                ELSE [@ EXCEPT !.pc = "insert"]]
    /\ UNCHANGED <<now, edges, routes, nutrients, dec, lastPrune, serial, interfered, used, routerVars, memVars,
                   sharedVars, lifeVars, keyVars, ctlVars>>

\* lines 294-305: create the missing edge.  The table's primary key is
\* (tenant_id, src, dst) and last_update defaults to NOW(): an insert of a key
\* that another request has created meanwhile raises, and the handler's
\* generic except turns that into a 500.
OutcomeInsertEdge(p) ==
    /\ rep[p].pc = "insert"
    /\ IF RepKey(p) \in DOMAIN edges
       THEN /\ rep' = [rep EXCEPT ![p] = Responded(rep[p].tenant, rep[p].trace, 500)]
            /\ UNCHANGED <<edges, serial, interfered>>
       ELSE /\ edges' = edges @@ (RepKey(p) :> EdgeRow(INITIAL_WEIGHT, 0, 0, 0, now))
            /\ serial' = serial @@ (RepKey(p) :>
                            [w |-> INITIAL_WEIGHT, r_success |-> 0, r_decay |-> 0,
                             pure |-> TRUE, fresh |-> TRUE])
            /\ interfered' = Disturb("-")
            /\ rep' = [rep EXCEPT ![p] =
                        [@ EXCEPT !.pc = "update",
                                  !.edge = [w |-> INITIAL_WEIGHT, r_success |-> 0,
                                            r_decay |-> 0]]]
    /\ UNCHANGED <<now, routes, nutrients, dec, lastPrune, used, routerVars, memVars,
                   sharedVars, lifeVars, keyVars, ctlVars>>

RepDelta(p) == calculate_weight_delta(RepHopScore(p), rep[p].edge.w)
RepNewWeight(p) == clamp_weight(rep[p].edge.w + RepDelta(p))

\* the row the credit's UPDATE writes (lines 318-333)
CreditedRow(row, new_weight, new_r_success, new_r_decay, at) ==
    [row EXCEPT !.w = new_weight, !.r_success = new_r_success,
                !.r_decay = new_r_decay, !.last_update = at]

\* lines 307-333: plasticity update computed from the row read earlier,
\* written back by key (no row is written when the key has gone meanwhile)
OutcomeUpdateEdge(p) ==
    /\ rep[p].pc = "update"
    /\ LET k == RepKey(p)
           o == RepHopScore(p)
       IN  IF k \in DOMAIN edges
           THEN /\ edges' = [edges EXCEPT ![k] =
                                CreditedRow(@, RepNewWeight(p), rep[p].edge.r_success + o,
                                            rep[p].edge.r_decay + (ScoreUnit - o), now)]
                /\ serial' = [serial EXCEPT ![k] =
                                [@ EXCEPT !.w = clamp_weight(@ + calculate_weight_delta(o, @)),
                                          !.r_success = @ + o,
                                          !.r_decay = @ + (ScoreUnit - o)]]
                /\ interfered' = Disturb("-")
           ELSE UNCHANGED <<edges, serial, interfered>>
    /\ rep' = [rep EXCEPT ![p] = [@ EXCEPT !.pc = "route"]]
    /\ UNCHANGED <<now, routes, nutrients, dec, lastPrune, used, routerVars, memVars,
                   sharedVars, lifeVars, keyVars, ctlVars>>

\* lines 335-358: write the score into the route rows of this trace, source and
\* destination; go on to the next route or return 200
OutcomeUpdateRoute(p) ==
    /\ rep[p].pc = "route"
    /\ LET r == routes[rep[p].cur]
           o == RepHopScore(p)
       IN  routes' = [n \in DOMAIN routes |->
                        IF /\ routes[n].trace = rep[p].trace
                           /\ routes[n].src = r.src
                           /\ routes[n].dst = r.dst
                        THEN [routes[n] EXCEPT !.outcome_score = o]
                        ELSE routes[n]]
    /\ IF rep[p].rows = {}
       THEN rep' = [rep EXCEPT ![p] = Responded(rep[p].tenant, rep[p].trace, 200)]
       ELSE \E n \in NextRows(rep[p].rows) :
              rep' = [rep EXCEPT ![p] =
                        [@ EXCEPT !.pc = "select", !.rows = @ \ {n}, !.cur = n]]
    /\ UNCHANGED <<now, edges, nutrients, dec, lastPrune, serial, interfered, used, routerVars, memVars,
                   sharedVars, lifeVars, keyVars, ctlVars>>

TraceIds == {"tr-1", "tr-2", UnknownTrace}

OutcomeSteps(p) ==
    \/ OutcomeSelectEdge(p)
    \/ OutcomeInsertEdge(p)
    \/ OutcomeUpdateEdge(p)
    \/ OutcomeUpdateRoute(p)

record_outcome(p) ==
    \/ \E t \in Tenants, tr \in TraceIds, sc \in Scores :
          OutcomeFetch(p, t, tr, sc, NoHops)
    \/ OutcomeSteps(p)

(***************************************************************************)
(* OutcomeRequest: the body of POST /v1/outcomes:record as the framework   *)
(* validates it before the handler runs.                                   *)
(***************************************************************************)
\* An optional field is the set of its values: empty when the field is absent,
\* one element otherwise.  hop_outcomes is the map as a set of <<agent, score>>
\* pairs; an absent map and an empty map are both {} (both are falsy).
OutcomeBody(outcome_score, outcome, hop_outcomes) ==
    [outcome_score |-> outcome_score, outcome |-> outcome, hop_outcomes |-> hop_outcomes]

\* Field(..., ge=0.0, le=1.0)
InUnitRange(x) == 0 <= x /\ x <= ScoreUnit

\* a validation that checks the presence of a uniform score but no range
ValidOutcomeRequestUnchecked(body) ==
    ~(body.outcome_score = {} /\ body.outcome = {})

\* the field constraints of lines 54 and 70 and model_post_init (lines 93-100)
ValidOutcomeRequest(body) ==
    /\ \A x \in body.outcome_score : InUnitRange(x)
    /\ \A x \in body.outcome : InUnitRange(x)
    /\ ~(body.outcome_score = {} /\ body.outcome = {})
    /\ \A h \in body.hop_outcomes : InUnitRange(h[2])

\* OutcomeRequest.score (lines 78-85), of a validated body
BodyScore(body) ==
    IF body.outcome_score # {} THEN CHOOSE x \in body.outcome_score : TRUE
    ELSE CHOOSE x \in body.outcome : TRUE

\* a request as it arrives: a body that fails validation is answered 422 and
\* the handler does not run
OutcomePost(p, t, tr, body) ==
    IF ValidOutcomeRequest(body)
    THEN OutcomeFetch(p, t, tr, BodyScore(body), body.hop_outcomes)
    ELSE /\ rep[p].pc \in {"idle", "done"}
         /\ used.reports < MaxReports
         /\ Issued < MaxRequests
         /\ used' = [used EXCEPT !.reports = @ + 1]
         /\ rep' = [rep EXCEPT ![p] = Responded(t, tr, 422)]
         /\ UNCHANGED <<now, edges, routes, nutrients, dec, lastPrune, serial, interfered,
                        routerVars, memVars,
                   sharedVars, lifeVars, keyVars, ctlVars>>

\* bodies with and without each field, with scores inside and outside [0,1]
OutcomeBodies ==
    {OutcomeBody(os, oc, hm) :
        os \in {{}, {100}, {150}},
        oc \in {{}, {0}},
        hm \in {{}, {<<"B", 0>>}, {<<"B", 150>>}}}

(***************************************************************************)
(* run_time_decay  (background task every hour, POST /v1/edges:decay)      *)
(***************************************************************************)
\* a query without the WHERE clause on last_update
StaleRowsAll ==
    {[key |-> k, w |-> edges[k].w, age |-> now - edges[k].last_update] : k \in DOMAIN edges}

\* lines 596-603: the edges not updated in the last hour, each with its
\* weight and its age as the query saw them
StaleRows ==
    {[key |-> k, w |-> edges[k].w, age |-> now - edges[k].last_update] :
        k \in {e \in DOMAIN edges : edges[e].last_update < now - Hour}}

DecayFetch(d) ==
    /\ dec[d].pc \in {"idle", "done"}
    /\ used.decays < MaxDecays
    /\ Issued < MaxRequests
    /\ used' = [used EXCEPT !.decays = @ + 1]
    /\ dec' = [dec EXCEPT ![d] =
                [IdleDec EXCEPT !.pc = IF StaleRows = {} THEN "done" ELSE "loop",
                                !.rows = StaleRows, !.start = edges, !.t0 = now]]
    /\ interfered' = [interfered EXCEPT ![d] = FALSE]
    /\ UNCHANGED <<now, edges, routes, nutrients, rep, lastPrune, serial, routerVars, memVars,
                   sharedVars, lifeVars, keyVars, ctlVars>>

\* lines 609-612
DecayedWeight(w, age) == clamp_weight(calculate_time_decay(w, age))

\* line 615
IsStaleWeak(new_weight, age) ==
    new_weight < STALE_EDGE_MIN_WEIGHT /\ age > STALE_EDGE_MAX_AGE_DAYS * Day

\* the row the decay's UPDATE writes (lines 624-633)
DecayedRow(row, new_weight, at) == [row EXCEPT !.w = new_weight]

\* lines 608-634: one fetched row: delete it by key, or rewrite its weight by
\* key, or leave it; the statements do not look at the row's present state
DecayStep(d) ==
    /\ dec[d].pc = "loop"
    /\ \E r \in dec[d].rows :
         LET new_weight == DecayedWeight(r.w, r.age)
             left == dec[d].rows \ {r}
             pc2 == IF left = {} THEN "done" ELSE "loop"
         IN  IF IsStaleWeak(new_weight, r.age)
             THEN /\ edges' = Without(edges, r.key)
                  /\ serial' = Without(serial, r.key)
                  /\ interfered' = Disturb(d)
                  /\ dec' = [dec EXCEPT ![d] =
                                [@ EXCEPT !.pc = pc2, !.rows = left, !.deleted = @ + 1]]
             ELSE IF new_weight # r.w
             THEN /\ IF r.key \in DOMAIN edges
                     THEN /\ edges' = [edges EXCEPT ![r.key] = DecayedRow(@, new_weight, now)]
                          /\ serial' = [serial EXCEPT ![r.key] =
                                           [@ EXCEPT !.w = new_weight, !.pure = FALSE]]
                          /\ interfered' = Disturb(d)
                     ELSE UNCHANGED <<edges, serial, interfered>>
                  /\ dec' = [dec EXCEPT ![d] =
                                [@ EXCEPT !.pc = pc2, !.rows = left, !.decayed = @ + 1]]
             ELSE /\ dec' = [dec EXCEPT ![d] = [@ EXCEPT !.pc = pc2, !.rows = left]]
                  /\ UNCHANGED <<edges, serial, interfered>>
    /\ UNCHANGED <<now, routes, nutrients, rep, lastPrune, used, routerVars, memVars,
                   sharedVars, lifeVars, keyVars, ctlVars>>

\* line 636: with pc = "done" the counts decayed and deleted are the result
run_time_decay(d) == DecayFetch(d) \/ DecayStep(d)

(***************************************************************************)
(* decay_background_task and the shutdown of the reinforcement process.    *)
(* The task created at startup is asleep while dec["tick"] is idle or      *)
(* done, and inside run_time_decay while it is in its loop.  server is     *)
(* "running", then "closed" once shutdown() has closed the pool, then      *)
(* "awaiting" while stop_decay_task awaits the cancelled task, then        *)
(* "stopped".                                                              *)
(***************************************************************************)
TaskRuns == decayTask.alive /\ ~decayTask.cancelling

\* lines 642-645: the sleep ends and the tick reads the stale edges
TickStarts == TaskRuns /\ server = "running" /\ DecayFetch("tick")

\* lines 608-634 inside the tick
TickSteps == TaskRuns /\ server = "running" /\ DecayStep("tick")

\* a handler that lets the error end the task
TickRaisesFatal ==
    /\ TaskRuns
    /\ decayTask.failures < MaxFailures
    /\ dec' = [dec EXCEPT !["tick"] = IdleDec]
    /\ decayTask' = [decayTask EXCEPT !.failures = @ + 1, !.alive = FALSE]
    /\ UNCHANGED <<now, edges, routes, nutrients, rep, lastPrune, serial, interfered, used,
                   routerVars, memVars, sharedVars, server, keyVars, ctlVars>>

\* lines 650-651: a statement of the tick raises (always so once the pool is
\* closed); the error is logged and the task goes back to its sleep
TickRaises ==
    /\ TaskRuns
    /\ decayTask.failures < MaxFailures
    /\ dec' = [dec EXCEPT !["tick"] = IdleDec]
    /\ decayTask' = [decayTask EXCEPT !.failures = @ + 1]
    /\ UNCHANGED <<now, edges, routes, nutrients, rep, lastPrune, serial, interfered, used,
                   routerVars, memVars, sharedVars, server, keyVars, ctlVars>>

\* a task whose handler catches the cancellation and goes on
TaskCancelledSwallowed ==
    /\ decayTask.alive
    /\ decayTask.cancelling
    /\ decayTask' = [decayTask EXCEPT !.cancelling = FALSE]
    /\ dec' = [dec EXCEPT !["tick"] = IdleDec]
    /\ UNCHANGED <<now, edges, routes, nutrients, rep, lastPrune, serial, interfered, used,
                   routerVars, memVars, sharedVars, server, keyVars, ctlVars>>

\* the cancelled task is resumed with CancelledError at the await it is
\* suspended on (the sleep or a statement); the handler of line 650 catches
\* Exception, which CancelledError is not, so the task ends
TaskCancelled ==
    /\ decayTask.alive
    /\ decayTask.cancelling
    /\ decayTask' = [decayTask EXCEPT !.alive = FALSE, !.cancelling = FALSE]
    /\ UNCHANGED <<now, edges, routes, nutrients, rep, dec, lastPrune, serial, interfered,
                   used, routerVars, memVars, sharedVars, server, keyVars, ctlVars>>

decay_background_task == TickStarts \/ TickSteps \/ TickRaises \/ TaskCancelled

\* shutdown(), lines 148-155, the first shutdown handler: the pool is closed
shutdown ==
    /\ server = "running"
    /\ server' = "closed"
    /\ UNCHANGED <<now, edges, routes, nutrients, rep, dec, lastPrune, serial, interfered,
                   used, routerVars, memVars, sharedVars, decayTask, keyVars, ctlVars>>

\* lines 669-671: _decay_task.cancel()
StopCancel ==
    /\ server = "closed"
    /\ server' = "awaiting"
    /\ decayTask' = [decayTask EXCEPT !.cancelling = decayTask.alive]
    /\ UNCHANGED <<now, edges, routes, nutrients, rep, dec, lastPrune, serial, interfered,
                   used, routerVars, memVars, sharedVars, keyVars, ctlVars>>

\* lines 672-676: await _decay_task returns once the task has ended
StopReturn ==
    /\ server = "awaiting"
    /\ ~decayTask.alive
    /\ server' = "stopped"
    /\ UNCHANGED <<now, edges, routes, nutrients, rep, dec, lastPrune, serial, interfered,
                   used, routerVars, memVars, sharedVars, decayTask, keyVars, ctlVars>>

stop_decay_task == StopCancel \/ StopReturn

(***************************************************************************)
(* prune_weak_edges  (POST /v1/edges:prune)                                *)
(***************************************************************************)
PruneThresholds == {500}

\* lines 547-564: DELETE ... WHERE tenant_id = $1 AND w < $2 RETURNING COUNT(*),
\* one statement.  A store that rejects the aggregate in RETURNING fails the
\* statement and deletes nothing (the request then ends with status 500).
prune_weak_edges(t, threshold) ==
    /\ used.prunes < MaxPrunes
    /\ Issued < MaxRequests
    /\ used' = [used EXCEPT !.prunes = @ + 1]
    /\ LET weak == {k \in DOMAIN edges : k[1] = t /\ edges[k].w < threshold}
       IN  \/ /\ edges' = [k \in DOMAIN edges \ weak |-> edges[k]]
              /\ serial' = [k \in DOMAIN serial \ weak |-> serial[k]]
              /\ interfered' = IF weak = {} THEN interfered ELSE Disturb("-")
              /\ lastPrune' = [status |-> 200, pruned |-> Cardinality(weak)]
           \/ /\ lastPrune' = [status |-> 500, pruned |-> 0]
              /\ UNCHANGED <<edges, serial, interfered>>
    /\ UNCHANGED <<now, routes, nutrients, rep, dec, routerVars, memVars,
                   sharedVars, lifeVars, keyVars, ctlVars>>

(***************************************************************************)
(* Time passes.                                                            *)
(***************************************************************************)
Advance(dt) ==
    /\ used.advances < MaxAdvance
    /\ Issued < MaxRequests
    /\ used' = [used EXCEPT !.advances = @ + 1]
    /\ now' = now + dt
    /\ UNCHANGED <<edges, routes, nutrients, rep, dec, lastPrune, serial, interfered, routerVars, memVars,
                   sharedVars, lifeVars, keyVars, ctlVars>>

(***************************************************************************)
(* Routing algorithm (services/shared/routing.py), pure.                   *)
(* Similarities and routing scores are in units of 10^-2.                  *)
(***************************************************************************)
THRESHOLD_MIN == 15
CAPABILITY_BOOST_PER_MATCH == 5
CAPABILITY_BOOST_MAX_MATCHES == 4
TOP_K == 3
LAMBDA_DIVERSITY == 50
SELF_ROUTE_SCORE == 100

Dot(a, b) ==
    IF a = "zero" \/ b = "zero" THEN 0
    ELSE IF a = b THEN 100
    ELSE IF {a, b} = {"e1", "-e1"} THEN -100
    ELSE 0

Norm(a) == IF a = "zero" THEN 0 ELSE 100

\* cosine_similarity: (cos + 1) / 2, and 0 for a zero vector
cosine_similarity(a, b) ==
    IF Norm(a) = 0 \/ Norm(b) = 0 THEN 0
    ELSE Max2(0, Min2(100, ((Dot(a, b) * 100) \div ((Norm(a) * Norm(b)) \div 100) + 100) \div 2))

SeqToSet(q) == {q[n] : n \in DOMAIN q}

\* calculate_demand_overlap with exact matches (fuzzy matching does not apply
\* to the tags used here): matched distinct hints / distinct hints
calculate_demand_overlap(nutrient_tasks, neighbor_tasks) ==
    IF nutrient_tasks = <<>> \/ neighbor_tasks = <<>> THEN 0
    ELSE (100 * Cardinality(SeqToSet(nutrient_tasks) \cap SeqToSet(neighbor_tasks)))
            \div Cardinality(SeqToSet(nutrient_tasks))

\* lines 187-190: one count per hint of the list that is a capability
MatchingCount(hints, caps) == Cardinality({n \in DOMAIN hints : hints[n] \in caps})

\* lines 193-196: 0.05 per match, at most 4 matches
capability_boost(hints, caps) ==
    CAPABILITY_BOOST_PER_MATCH * Min2(MatchingCount(hints, caps), CAPABILITY_BOOST_MAX_MATCHES)

\* calculate_routing_score: clip(similarity * w * (0.5 + 0.5 * demand) + boost, 0, 2)
calculate_routing_score(emb, hints, nb) ==
    LET similarity == cosine_similarity(emb, nb.profile_embedding)
        demand == calculate_demand_overlap(hints, nb.recent_tasks)
        boost == capability_boost(hints, nb.capabilities)
        base == (similarity * nb.edge_weight * (50 + (50 * demand) \div 100))
                    \div (100 * WeightUnit)
    IN  Max2(0, Min2(200, base + boost))

\* sim_matrix, lines 243-248: a norm of 0 is replaced by 1, which leaves the
\* zero vector at similarity 0.5 to every vector
MatrixSimilarity(a, b) == Max2(0, Min2(100, (Dot(a, b) + 100) \div 2))

\* mmr_select, lines 264-279: scored is a sequence of [id, score, emb] sorted
\* by score; chosen and candidates are sequences of positions in it
MmrValue(scored, chosen, c) ==
    LET sims == {MatrixSimilarity(scored[c].emb, scored[chosen[n]].emb) : n \in DOMAIN chosen}
        min_sim == CHOOSE x \in sims : \A y \in sims : x <= y
    IN  LAMBDA_DIVERSITY * scored[c].score - (100 - LAMBDA_DIVERSITY) * min_sim

RemoveAt(q, pos) == [n \in 1..(Len(q) - 1) |-> IF n < pos THEN q[n] ELSE q[n + 1]]

RECURSIVE MmrLoop(_, _, _, _)
MmrLoop(scored, chosen, candidates, k) ==
    IF Len(chosen) >= k \/ candidates = <<>> THEN chosen
    ELSE LET best == CHOOSE pos \in DOMAIN candidates :
                        /\ \A q \in DOMAIN candidates :
                              MmrValue(scored, chosen, candidates[q])
                                <= MmrValue(scored, chosen, candidates[pos])
                        /\ \A q \in 1..(pos - 1) :
                              MmrValue(scored, chosen, candidates[q])
                                < MmrValue(scored, chosen, candidates[pos])
         IN  MmrLoop(scored, Append(chosen, candidates[best]),
                     RemoveAt(candidates, best), k)

mmr_select(scored, k) ==
    IF Len(scored) <= k THEN scored
    ELSE IF k <= 0 THEN <<>>
    ELSE LET chosen == MmrLoop(scored, <<1>>, [n \in 1..(Len(scored) - 1) |-> n + 1], k)
         IN  [n \in DOMAIN chosen |-> scored[chosen[n]]]

\* the orders in which a stable descending sort can leave the set S of scored
\* neighbors (the order of equal scores is the order the store returned them in)
SortedByScore(S) ==
    {q \in [1..Cardinality(S) -> S] :
        /\ \A i, j \in DOMAIN q : i # j => q[i] # q[j]
        /\ \A i, j \in DOMAIN q : i < j => q[i].score >= q[j].score}

\* route_nutrient, lines 342-379, with top_k = 3 and diversify on: the possible
\* selections; explore says whether random.random() < epsilon came out true
route_nutrient(emb, hints, neighbors, explore) ==
    LET all == {[id |-> nb.id, score |-> calculate_routing_score(emb, hints, nb),
                 emb |-> nb.profile_embedding] : nb \in neighbors}
        above == {x \in all : x.score >= THRESHOLD_MIN}
        below == all \ above
        picks == {IF Len(q) > TOP_K THEN mmr_select(q, TOP_K) ELSE q : q \in SortedByScore(above)}
    IN  IF explore
        THEN UNION {IF Len(q) > 0 /\ below # {}
                    THEN {[q EXCEPT ![Len(q)] = x] : x \in below}
                    ELSE {q} : q \in picks}
        ELSE picks

\* TTLChecker.can_forward
can_forward(age, nutrient_ttl_sec, nutrient_max_hops) ==
    IF age >= nutrient_ttl_sec THEN FALSE
    ELSE IF nutrient_max_hops <= 0 THEN FALSE
    ELSE TRUE

\* QuotaChecker.within_quota
within_quota(nutrient_cost, neighbor_quota, current_usage) ==
    /\ current_usage.kb_hour + nutrient_cost <= neighbor_quota.kb_hour
    /\ current_usage.msg_min + 1 <= neighbor_quota.msg_min

(***************************************************************************)
(* broadcast_nutrient  (POST /v1/nutrients:broadcast)                      *)
(***************************************************************************)
MIN_NEIGHBOR_LIMIT == 20
MAX_NEIGHBOR_LIMIT == 50
EDGE_COUNT_CACHE_TTL_SEC == 300
Minute == 60

FreshNutrients == <<"n3", "n4", "n5", "n6">>
FreshTraces == <<"tr-3", "tr-4", "tr-5", "tr-6">>

RECURSIVE SumCost(_)
SumCost(S) ==
    IF S = {} THEN 0
    ELSE LET x == CHOOSE y \in S : TRUE IN x.quota_cost + SumCost(S \ {x})

\* what tenant t has broadcast in the running minute and hour (history read
\* off the nutrient rows)
UsageOf(t) ==
    [msg_min |-> Cardinality({n \in nutrients : n.tenant = t /\ n.created_at > now - Minute}),
     kb_hour |-> SumCost({n \in nutrients : n.tenant = t /\ n.created_at > now - Hour})]

\* BroadcastRequest's field bounds (lines 60-62); violations are answered 422
ValidBroadcast(ttl, hops, cost) ==
    /\ ttl >= 1 /\ ttl <= 3600
    /\ hops >= 1 /\ hops <= 10
    /\ cost >= 1 /\ cost <= 100

DynamicLimit(count) == Min2(MAX_NEIGHBOR_LIMIT, Max2(MIN_NEIGHBOR_LIMIT, count \div 10))

BrdAnswer(b, code) ==
    [IdleBrd EXCEPT !.pc = "done", !.tenant = brd[b].tenant, !.src = brd[b].src,
                    !.nutrient = brd[b].nutrient, !.trace = brd[b].trace,
                    !.routed = brd[b].routed, !.status = code, !.over = brd[b].over]

\* lines 412-438 and 197-203: the request is validated, the TTL and hop
\* precondition checked (its 409 is caught by the handler's generic except and
\* answered 500), ids are drawn, and _get_dynamic_limit looks at its cache.
\* pause: the seconds by which the wall clock moves between the handler's
\* reading of datetime.utcnow() for nutrient_created_at (line 414) and the
\* reading inside can_forward (routing.py line 432): 0 unless the process is
\* suspended or the clock is stepped between the two.
BroadcastStart(b, t, src, emb, hints, ttl, hops, cost, pause) ==
    /\ brd[b].pc \in {"idle", "done"}
    /\ used.broadcasts < MaxBroadcasts
    /\ Issued < MaxRequests
    /\ used' = [used EXCEPT !.broadcasts = @ + 1]
    /\ LET req == [IdleBrd EXCEPT !.tenant = t, !.src = src, !.emb = emb, !.hints = hints,
                                  !.ttl = ttl, !.max_hops = hops, !.cost = cost,
                                  !.over = /\ ValidBroadcast(ttl, hops, cost)
                                          /\ ~within_quota(cost, TenantQuota, UsageOf(t))]
           cache_valid == /\ edgeCache.updated_at # NoTime
                          /\ now - edgeCache.updated_at < EDGE_COUNT_CACHE_TTL_SEC
       IN  brd' = [brd EXCEPT ![b] =
                    IF ~ValidBroadcast(ttl, hops, cost)
                    THEN [req EXCEPT !.pc = "done", !.status = 422]
                    ELSE IF ~can_forward(pause, ttl, hops)
                    THEN [req EXCEPT !.pc = "done", !.status = 500]
                    ELSE [req EXCEPT !.pc = IF cache_valid THEN "edges" ELSE "count",
                                     !.nutrient = FreshNutrients[used.broadcasts + 1],
                                     !.trace = FreshTraces[used.broadcasts + 1],
                                     !.limit = DynamicLimit(edgeCache.count)]]
    /\ UNCHANGED <<now, edges, routes, nutrients, rep, dec, lastPrune, serial, interfered,
                   agents, edgeCache, memVars,
                   sharedVars, lifeVars, keyVars, ctlVars>>

\* lines 204-211: count the tenant's edges, fill the process-wide cache
BroadcastCount(b) ==
    /\ brd[b].pc = "count"
    /\ LET count == Cardinality({k \in DOMAIN edges : k[1] = brd[b].tenant})
       IN  /\ edgeCache' = [count |-> count, updated_at |-> now]
           /\ brd' = [brd EXCEPT ![b] = [@ EXCEPT !.pc = "edges", !.limit = DynamicLimit(count)]]
    /\ UNCHANGED <<now, edges, routes, nutrients, rep, dec, lastPrune, serial, interfered,
                   used, agents, memVars,
                   sharedVars, lifeVars, keyVars, ctlVars>>

\* the sets of at most n rows of S that ORDER BY w DESC LIMIT n can return
TopByWeight(S, n) ==
    {T \in SUBSET S :
        /\ Cardinality(T) = Min2(n, Cardinality(S))
        /\ \A x \in T, y \in S \ T : x.w >= y.w}

\* lines 239-253: the out-edges of the source agent, heaviest first, limited
BroadcastEdges(b) ==
    /\ brd[b].pc = "edges"
    /\ LET out == {[dst |-> k[3], w |-> edges[k].w, sim |-> edges[k].sim] :
                     k \in {e \in DOMAIN edges : e[1] = brd[b].tenant /\ e[2] = brd[b].src}}
       IN  \E found \in TopByWeight(out, brd[b].limit) :
              brd' = [brd EXCEPT ![b] =
                        [@ EXCEPT !.pc = IF found = {} THEN "store" ELSE "agents",
                                  !.found = found]]
    /\ UNCHANGED <<now, edges, routes, nutrients, rep, dec, lastPrune, serial, interfered,
                   used, agents, edgeCache, memVars,
                   sharedVars, lifeVars, keyVars, ctlVars>>

\* lines 255-291: the agent documents of the neighbors, of this tenant only
BroadcastAgents(b) ==
    /\ brd[b].pc = "agents"
    /\ brd' = [brd EXCEPT ![b] =
                [@ EXCEPT !.pc = "store",
                          !.neighbors =
                             {[id |-> e.dst, profile_embedding |-> agents[e.dst].embedding,
                               edge_weight |-> e.w, base_similarity |-> e.sim,
                               recent_tasks |-> agents[e.dst].recent_tasks,
                               capabilities |-> agents[e.dst].capabilities] :
                              e \in {x \in brd[b].found :
                                        /\ x.dst \in DOMAIN agents
                                        /\ agents[x.dst].tenant_id = brd[b].tenant}}]]
    /\ UNCHANGED <<now, edges, routes, nutrients, rep, dec, lastPrune, serial, interfered,
                   used, agents, edgeCache, memVars,
                   sharedVars, lifeVars, keyVars, ctlVars>>

\* lines 440-443, store_active_nutrient
BroadcastStore(b) ==
    /\ brd[b].pc = "store"
    /\ nutrients' = nutrients \cup
          {[id |-> brd[b].nutrient, tenant |-> brd[b].tenant, trace |-> brd[b].trace,
            current_hop |-> 0, max_hops |-> brd[b].max_hops, ttl_sec |-> brd[b].ttl,
            quota_cost |-> brd[b].cost, created_at |-> now, expires_at |-> now + brd[b].ttl]}
    /\ brd' = [brd EXCEPT ![b] = [@ EXCEPT !.pc = "self"]]
    /\ UNCHANGED <<now, edges, routes, rep, dec, lastPrune, serial, interfered,
                   used, agents, edgeCache, memVars,
                   sharedVars, lifeVars, keyVars, ctlVars>>

\* a record with source and destination swapped
RecordedRouteFromNeighbor(b, dst, hop, score) ==
    RouteRow(brd[b].tenant, brd[b].nutrient, brd[b].trace, dst, brd[b].src, hop, score)

\* record_routing_decision
RecordedRoute(b, dst, hop, score) ==
    RouteRow(brd[b].tenant, brd[b].nutrient, brd[b].trace, brd[b].src, dst, hop, score)

\* a handler that records the self-route only when there are neighbors
BroadcastSelfRouteWhenRouted(b) ==
    /\ brd[b].pc = "self"
    /\ routes' = IF brd[b].neighbors = {} THEN routes
                 ELSE Append(routes, RecordedRoute(b, brd[b].src, 0, SELF_ROUTE_SCORE))
    /\ IF brd[b].neighbors = {}
       THEN brd' = [brd EXCEPT ![b] =
                      [BrdAnswer(b, 200) EXCEPT !.routed = <<brd[b].src>>]]
       ELSE \E explore \in BOOLEAN :
              \E sel \in route_nutrient(brd[b].emb, brd[b].hints, brd[b].neighbors, explore) :
                 brd' = [brd EXCEPT ![b] =
                           IF sel = <<>> THEN BrdAnswer(b, 200)
                           ELSE [@ EXCEPT !.pc = "routes", !.sel = sel]]
    /\ UNCHANGED <<now, edges, nutrients, rep, dec, lastPrune, serial, interfered,
                   used, agents, edgeCache, memVars,
                   sharedVars, lifeVars, keyVars, ctlVars>>

\* lines 445-478: the self-route; without neighbors the response is sent,
\* with neighbors the routing algorithm selects among them
BroadcastSelfRoute(b) ==
    /\ brd[b].pc = "self"
    /\ routes' = Append(routes, RecordedRoute(b, brd[b].src, 0, SELF_ROUTE_SCORE))
    /\ IF brd[b].neighbors = {}
       THEN brd' = [brd EXCEPT ![b] =
                      [BrdAnswer(b, 200) EXCEPT !.routed = <<brd[b].src>>]]
       ELSE \E explore \in BOOLEAN :
              \E sel \in route_nutrient(brd[b].emb, brd[b].hints, brd[b].neighbors, explore) :
                 brd' = [brd EXCEPT ![b] =
                           IF sel = <<>> THEN BrdAnswer(b, 200)
                           ELSE [@ EXCEPT !.pc = "routes", !.sel = sel]]
    /\ UNCHANGED <<now, edges, nutrients, rep, dec, lastPrune, serial, interfered,
                   used, agents, edgeCache, memVars,
                   sharedVars, lifeVars, keyVars, ctlVars>>

\* a handler that also creates the edge to each neighbor it routes to
BroadcastRouteCreatingEdge(b) ==
    /\ brd[b].pc = "routes"
    /\ routes' = Append(routes, RecordedRoute(b, Head(brd[b].sel).id, 0, Head(brd[b].sel).score))
    /\ LET after == [brd EXCEPT ![b] = [@ EXCEPT !.sel = Tail(@),
                                                 !.routed = Append(@, Head(brd[b].sel).id)]]
       IN  brd' = IF Tail(brd[b].sel) = <<>>
                  THEN [after EXCEPT ![b] =
                          [IdleBrd EXCEPT !.pc = "done", !.tenant = after[b].tenant,
                                          !.src = after[b].src, !.nutrient = after[b].nutrient,
                                          !.trace = after[b].trace, !.routed = after[b].routed,
                                          !.status = 200, !.over = after[b].over]]
                  ELSE after
    /\ edges' = [edges EXCEPT ![<<brd[b].tenant, brd[b].src, Head(brd[b].sel).id>>] =
                    [@ EXCEPT !.last_update = now, !.sim = Head(brd[b].sel).score]]
    /\ UNCHANGED <<now, nutrients, rep, dec, lastPrune, serial, interfered,
                   used, agents, edgeCache, memVars,
                   sharedVars, lifeVars, keyVars, ctlVars>>

\* lines 491-517: one route record per selected neighbor, then the response
BroadcastRoute(b) ==
    /\ brd[b].pc = "routes"
    /\ routes' = Append(routes, RecordedRoute(b, Head(brd[b].sel).id, 0, Head(brd[b].sel).score))
    /\ LET after == [brd EXCEPT ![b] = [@ EXCEPT !.sel = Tail(@),
                                                 !.routed = Append(@, Head(brd[b].sel).id)]]
       IN  brd' = IF Tail(brd[b].sel) = <<>>
                  THEN [after EXCEPT ![b] =
                          [IdleBrd EXCEPT !.pc = "done", !.tenant = after[b].tenant,
                                          !.src = after[b].src, !.nutrient = after[b].nutrient,
                                          !.trace = after[b].trace, !.routed = after[b].routed,
                                          !.status = 200, !.over = after[b].over]]
                  ELSE after
    /\ UNCHANGED <<now, edges, nutrients, rep, dec, lastPrune, serial, interfered,
                   used, agents, edgeCache, memVars,
                   sharedVars, lifeVars, keyVars, ctlVars>>

BroadcastSteps(b) ==
    \/ BroadcastCount(b)
    \/ BroadcastEdges(b)
    \/ BroadcastAgents(b)
    \/ BroadcastStore(b)
    \/ BroadcastSelfRoute(b)
    \/ BroadcastRoute(b)

HintChoices == {<<>>, <<"db", "sql", "db">>}
TtlChoices == {0, 180}
PauseChoices == {0, 2}
CostChoices == {100}

BroadcastRequest(b) ==
    \E t \in Tenants, src \in AgentIds, hints \in HintChoices,
       ttl \in TtlChoices, cost \in CostChoices, pause \in PauseChoices :
       BroadcastStart(b, t, src, "e1", hints, ttl, 3, cost, pause)

broadcast_nutrient(b) == BroadcastRequest(b) \/ BroadcastSteps(b)

(***************************************************************************)
(* Hyphal memory (services/data_plane/hyphal_memory/main.py) and the       *)
(* router's collect operation.  Every handler runs one SQL statement, at   *)
(* the time NOW() of the store.  A response is the set of rows returned,   *)
(* each with the expires_at its stored row carries; the order of the rows  *)
(* and the limit top_k are those of collect only (the limits of the other  *)
(* reads are larger than the table here).                                  *)
(***************************************************************************)
FreshMemories == <<"m1", "m2", "m3">>

\* request.ttl_hours (Optional[int], line 53): absent, or a number of hours
TtlHoursChoices == {{}, {0}, {1}}

HoursOf(ttl_hours) == CHOOSE h \in ttl_hours : TRUE

\* `if request.ttl_hours:` (line 221): None and 0 are both falsy
TtlGiven(ttl_hours) == ttl_hours # {} /\ HoursOf(ttl_hours) # 0

NoAgentFilter == "-"

MemoryRow(t, agent_id, embedding, created_at, expires_at) ==
    [tenant |-> t, agent_id |-> agent_id, embedding |-> embedding,
     created_at |-> created_at, expires_at |-> expires_at]

\* expires_at IS NULL OR expires_at > NOW()
NotExpired(id) == memory[id].expires_at = NoTime \/ memory[id].expires_at > now

Returned(ids) == {[id |-> id, expires_at |-> memory[id].expires_at] : id \in ids}

MemoryRead(op, t, code, ids) ==
    /\ used.reads < MaxReads
    /\ Issued < MaxRequests
    /\ used' = [used EXCEPT !.reads = @ + 1]
    /\ lastRead' = [NoRead EXCEPT !.op = op, !.tenant = t, !.at = now, !.status = code,
                                  !.rows = Returned(ids)]
    /\ UNCHANGED <<now, edges, routes, nutrients, rep, dec, lastPrune, serial, interfered,
                   routerVars, memory,
                   sharedVars, lifeVars, keyVars, ctlVars>>

\* store_memory, lines 196-278
store_memory(t, agent_id, embedding, ttl_hours) ==
    /\ used.stores < MaxStores
    /\ Issued < MaxRequests
    /\ used' = [used EXCEPT !.stores = @ + 1]
    /\ memory' = memory @@
          (FreshMemories[used.stores + 1] :>
              MemoryRow(t, agent_id, embedding, now,
                        IF TtlGiven(ttl_hours) THEN now + HoursOf(ttl_hours) * Hour
                                               ELSE NoTime))
    /\ UNCHANGED <<now, edges, routes, nutrients, rep, dec, lastPrune, serial, interfered,
                   routerVars, lastRead,
                   sharedVars, lifeVars, keyVars, ctlVars>>

\* search_memory, lines 281-373
search_memory(t, agent_filter) ==
    MemoryRead("search", t, 200,
               {id \in DOMAIN memory :
                   /\ memory[id].tenant = t
                   /\ NotExpired(id)
                   /\ agent_filter # NoAgentFilter => memory[id].agent_id = agent_filter})

\* embedding <=> $1::vector (router/main.py line 564): the cosine distance of
\* two embeddings of length 1, in 1e-2 units
VectorDistance(a, b) == 100 - Dot(a, b)

\* ORDER BY embedding <=> $1::vector LIMIT $3: the lists the statement can
\* return (rows at the same distance come in any order)
RankedFetch(ids, demand_embedding, limit) ==
    LET n == Min2(limit, Cardinality(ids))
        d(id) == VectorDistance(memory[id].embedding, demand_embedding)
    IN  {q \in [1..n -> ids] :
            /\ \A i, j \in 1..n : i # j => q[i] # q[j]
            /\ \A i, j \in 1..n : i < j => d(q[i]) <= d(q[j])
            /\ \A id \in ids \ SeqToSet(q) : \A i \in 1..n : d(q[i]) <= d(id)}

\* the loop of lines 587-596, from row pos of results on
RECURSIVE DiverseLoop(_, _, _, _, _)
DiverseLoop(results, pos, seen_agents, diverse_results, top_k) ==
    IF pos > Len(results) THEN diverse_results
    ELSE LET result == results[pos]
             admit == \/ memory[result].agent_id \notin seen_agents
                      \/ Len(diverse_results) < top_k
             diverse == IF admit THEN Append(diverse_results, result) ELSE diverse_results
             seen == IF admit THEN seen_agents \cup {memory[result].agent_id} ELSE seen_agents
         IN  IF Len(diverse) >= top_k THEN diverse
             ELSE DiverseLoop(results, pos + 1, seen, diverse, top_k)

\* lines 583-599
CollectResults(results, top_k, diversify) ==
    IF diversify /\ Len(results) > top_k THEN DiverseLoop(results, 1, {}, <<>>, top_k)
    ELSE SubSeq(results, 1, Min2(top_k, Len(results)))

\* collect_contexts of the router, lines 527-650
collect_contexts(t, demand_embedding, top_k, diversify) ==
    /\ used.reads < MaxReads
    /\ Issued < MaxRequests
    /\ used' = [used EXCEPT !.reads = @ + 1]
    /\ \E results \in RankedFetch({id \in DOMAIN memory : memory[id].tenant = t /\ NotExpired(id)},
                                   demand_embedding, top_k * 2) :
          LET out == CollectResults(results, top_k, diversify)
          IN  lastRead' = [op |-> "collect", tenant |-> t, at |-> now, status |-> 200,
                           rows |-> Returned(SeqToSet(out)), fetched |-> results,
                           top_k |-> top_k, diversify |-> diversify,
                           source_agents |-> [i \in DOMAIN out |-> memory[out[i]].agent_id]]
    /\ UNCHANGED <<now, edges, routes, nutrients, rep, dec, lastPrune, serial, interfered,
                   routerVars, memory,
                   sharedVars, lifeVars, keyVars, ctlVars>>

\* list_agent_memories, lines 460-505
list_agent_memories(t, agent_id) ==
    MemoryRead("list", t, 200,
               {id \in DOMAIN memory :
                   /\ memory[id].tenant = t
                   /\ memory[id].agent_id = agent_id
                   /\ NotExpired(id)})

\* get_memory, lines 376-425: WHERE id = $1 AND tenant_id = $2
get_memory(t, memory_id) ==
    IF memory_id \in DOMAIN memory /\ memory[memory_id].tenant = t
    THEN MemoryRead("get", t, 200, {memory_id})
    ELSE MemoryRead("get", t, 404, {})

\* the rows cleanup_expired_memory() removes: those whose expires_at lies in
\* the past
ExpiredRows == {id \in DOMAIN memory : memory[id].expires_at # NoTime /\ memory[id].expires_at < now}

\* cleanup_expired, lines 519-552
cleanup_expired ==
    /\ used.cleanups < MaxCleanups
    /\ Issued < MaxRequests
    /\ used' = [used EXCEPT !.cleanups = @ + 1]
    /\ memory' = [id \in DOMAIN memory \ ExpiredRows |-> memory[id]]
    /\ UNCHANGED <<now, edges, routes, nutrients, rep, dec, lastPrune, serial, interfered,
                   routerVars, lastRead,
                   sharedVars, lifeVars, keyVars, ctlVars>>

(***************************************************************************)
(* SpecMemory: memories of tenant tX are stored with and without a TTL,    *)
(* read by each read operation, and cleaned up, while time passes.         *)
(***************************************************************************)
MemoryTimeSteps == {1800, 2 * Hour}

\* CollectRequest.top_k when the request names none
DefaultTopK == 5

NextMemory ==
    \/ \E a \in AgentIds, ttl \in TtlHoursChoices : store_memory("tX", a, "e1", ttl)
    \/ \E t \in Tenants, f \in AgentIds \cup {NoAgentFilter} : search_memory(t, f)
    \/ \E t \in Tenants : collect_contexts(t, "e1", DefaultTopK, TRUE)
    \/ \E t \in Tenants, a \in AgentIds : list_agent_memories(t, a)
    \/ \E t \in Tenants, id \in SeqToSet(FreshMemories) : get_memory(t, id)
    \/ cleanup_expired
    \/ \E dt \in MemoryTimeSteps : Advance(dt)

\* no edge has been learned yet
InitMemory == InitStore(<<>>)

SpecMemory == InitMemory /\ [][NextMemory]_vars

(***************************************************************************)
(* SpecCollect: tenant tX holds two memories of agent A; further memories  *)
(* of either agent are stored, and the tenant collects with a top_k        *)
(* smaller than the table, with and without diversification.               *)
(***************************************************************************)
SeedMemory ==
    ("s1" :> MemoryRow("tX", "A", "e1", 0, NoTime)) @@
    ("s2" :> MemoryRow("tX", "A", "e2", 0, NoTime))

MemoryEmbeddings == {"e1", "e2", "-e1"}

TopKChoices == {1, 2}

NextCollect ==
    \/ \E a \in AgentIds, emb \in MemoryEmbeddings : store_memory("tX", a, emb, {})
    \/ \E demand \in {"e1", "e2"}, k \in TopKChoices, diversify \in BOOLEAN :
          collect_contexts("tX", demand, k, diversify)

InitCollect == InitAll(<<>>, SeedAgents, SeedMemory)

SpecCollect == InitCollect /\ [][NextCollect]_vars

(***************************************************************************)
(* SpecRouting: the routing algorithm is called on arguments of its own:   *)
(* mmr_select on four scored neighbors, sorted by score as route_nutrient  *)
(* hands them over, and route_nutrient on five neighbors of a nutrient     *)
(* with embedding e1.                                                      *)
(***************************************************************************)
MmrSelect ==
    /\ routing.pc = "mmr"
    /\ routing' = [routing EXCEPT !.pc = "selected",
                                  !.out = mmr_select(routing.scored, routing.k)]
    /\ UNCHANGED <<now, edges, routes, nutrients, rep, dec, lastPrune, serial, interfered,
                   used, routerVars, memVars, limVars, lifeVars, keyVars, ctlVars>>

RouteNutrient ==
    /\ routing.pc = "route"
    /\ \E explore \in BOOLEAN :
          \E sel \in route_nutrient(routing.emb, routing.hints, routing.neighbors, explore) :
             routing' = [routing EXCEPT !.pc = "routed", !.explore = explore, !.out = sel]
    /\ UNCHANGED <<now, edges, routes, nutrients, rep, dec, lastPrune, serial, interfered,
                   used, routerVars, memVars, limVars, lifeVars, keyVars, ctlVars>>

ScoreChoices == {30, 40}

MmrEmbeddings == {"e1", "e2", "-e1", "zero"}

MmrInputs ==
    {[NoRouting EXCEPT !.pc = "mmr", !.k = k,
         !.scored = [n \in 1..4 |-> [id |-> <<"n1", "n2", "n3", "n4">>[n],
                                      score |-> sc[n], emb |-> em[n]]]] :
       k \in {2, 3},
       sc \in {q \in [1..4 -> ScoreChoices] : \A i \in 1..3 : q[i] >= q[i + 1]},
       em \in [1..4 -> MmrEmbeddings]}

Neighbor(id, emb, w) ==
    [id |-> id, profile_embedding |-> emb, edge_weight |-> w, base_similarity |-> 0,
     recent_tasks |-> <<>>, capabilities |-> {}]

NeighborKinds == {"e1", "e2"} \X {4000, 6000, 8000}

RouteInputs ==
    {[NoRouting EXCEPT !.pc = "route", !.emb = "e1",
         !.neighbors = {Neighbor("n1", "e1", 8000), Neighbor("n2", x[1], x[2]),
                        Neighbor("n3", y[1], y[2]), Neighbor("n4", z[1], z[2]),
                        Neighbor("n5", "e2", 4000)}] :
       x \in NeighborKinds, y \in NeighborKinds, z \in NeighborKinds}

NextRouting == MmrSelect \/ RouteNutrient

InitRouting == InitBase(<<>>, SeedAgents, <<>>) /\ routing \in MmrInputs \cup RouteInputs

SpecRouting == InitRouting /\ [][NextRouting]_vars

(***************************************************************************)
(* SpecScore: calculate_routing_score is called on one neighbor, for tool  *)
(* hints with and without repetitions and capabilities that hold none,     *)
(* some or all of them.                                                    *)
(***************************************************************************)
\* the RoutingScore of the call, with the boost it was computed from
CalculateRoutingScore ==
    /\ routing.pc = "score"
    /\ \E nb \in routing.neighbors :
          routing' = [routing EXCEPT
                         !.pc = "scored",
                         !.out = <<[neighbor_id |-> nb.id,
                                    total_score |->
                                        calculate_routing_score(routing.emb, routing.hints, nb),
                                    capability_match |->
                                        MatchingCount(routing.hints, nb.capabilities) > 0,
                                    capability_boost |->
                                        capability_boost(routing.hints, nb.capabilities)]>>]
    /\ UNCHANGED <<now, edges, routes, nutrients, rep, dec, lastPrune, serial, interfered,
                   used, routerVars, memVars, limVars, lifeVars, keyVars, ctlVars>>

Tools == {"db", "sql", "cache", "io", "net"}

HintLists ==
    UNION {[1..n -> {"db", "sql"}] : n \in 0..3}
        \cup {<<"db", "sql", "cache", "io">>, <<"db", "sql", "cache", "io", "net">>}

CapabilitySets == {{}, {"db"}, {"db", "sql"}, Tools \ {"net"}, Tools}

ScoreInputs ==
    {[NoRouting EXCEPT !.pc = "score", !.emb = "e1", !.hints = h,
         !.neighbors = {[Neighbor("n1", x[1], x[2]) EXCEPT !.capabilities = c]}] :
       h \in HintLists, c \in CapabilitySets, x \in NeighborKinds}

NextScore == CalculateRoutingScore

InitScore == InitBase(<<>>, SeedAgents, <<>>) /\ routing \in ScoreInputs

SpecScore == InitScore /\ [][NextScore]_vars

(***************************************************************************)
(* API keys: the key service (services/control_plane/keys/main.py) and     *)
(* APIKeyValidator.validate (services/shared/auth.py).  A key is named by  *)
(* the id of its row (its hash finds no other row); the tenants of the     *)
(* keys are active.                                                        *)
(***************************************************************************)
FreshKeys == <<"k1", "k2", "k3", "k4">>

NewKeyId == FreshKeys[Cardinality(DOMAIN apiKeys) + 1]

KeyRow(t, expires_at) ==
    [tenant |-> t, status |-> "active", expires_at |-> expires_at, last_used_at |-> NoTime]

KeyRequest ==
    /\ used.keyops < MaxKeyOps
    /\ Issued < MaxRequests
    /\ used' = [used EXCEPT !.keyops = @ + 1]

\* create_key, lines 159-237; expires_in_days is absent or a number of days
create_key(t, expires_in_days) ==
    /\ KeyRequest
    /\ apiKeys' = apiKeys @@
          (NewKeyId :> KeyRow(t, IF expires_in_days # {}
                                    /\ (CHOOSE x \in expires_in_days : TRUE) # 0
                                 THEN now + (CHOOSE x \in expires_in_days : TRUE) * Day
                                 ELSE NoTime))
    /\ UNCHANGED <<now, edges, routes, nutrients, rep, dec, lastPrune, serial, interfered,
                   routerVars, memVars, sharedVars, lifeVars, rot, lastValidation, rejected, ctlVars>>

\* rotate_key, lines 355-369: the old key is read, by id and status only
RotateSelect(key_id, grace_period_sec) ==
    /\ rot.pc \in {"idle", "done"}
    /\ KeyRequest
    /\ rot' = IF key_id \in DOMAIN apiKeys /\ apiKeys[key_id].status = "active"
              THEN [pc |-> "insert", key_id |-> key_id, grace_period_sec |-> grace_period_sec,
                    tenant |-> apiKeys[key_id].tenant, status |-> 0]
              ELSE [IdleRot EXCEPT !.pc = "done", !.key_id = key_id, !.status = 404]
    /\ UNCHANGED <<now, edges, routes, nutrients, rep, dec, lastPrune, serial, interfered,
                   routerVars, memVars, sharedVars, lifeVars, apiKeys, lastValidation, rejected, ctlVars>>

\* lines 371-393: the new key, without an expiry
RotateInsert ==
    /\ rot.pc = "insert"
    /\ apiKeys' = apiKeys @@ (NewKeyId :> KeyRow(rot.tenant, NoTime))
    /\ rot' = [rot EXCEPT !.pc = "update"]
    /\ UNCHANGED <<now, edges, routes, nutrients, rep, dec, lastPrune, serial, interfered, used,
                   routerVars, memVars, sharedVars, lifeVars, lastValidation, rejected, ctlVars>>

\* lines 395-400: UPDATE api_keys SET expires_at = $1 WHERE id = $2
RotateUpdate ==
    /\ rot.pc = "update"
    /\ apiKeys' = [apiKeys EXCEPT ![rot.key_id] =
                      [@ EXCEPT !.expires_at = now + rot.grace_period_sec]]
    /\ rot' = [rot EXCEPT !.pc = "done", !.status = 200]
    /\ UNCHANGED <<now, edges, routes, nutrients, rep, dec, lastPrune, serial, interfered, used,
                   routerVars, memVars, sharedVars, lifeVars, lastValidation, rejected, ctlVars>>

GracePeriods == {3600}

rotate_key ==
    \/ \E key_id \in SeqToSet(FreshKeys), g \in GracePeriods : RotateSelect(key_id, g)
    \/ RotateInsert
    \/ RotateUpdate

\* revoke_key, lines 429-452 (an unknown id is answered 404)
revoke_key(key_id) ==
    /\ KeyRequest
    /\ apiKeys' = IF key_id \in DOMAIN apiKeys
                  THEN [apiKeys EXCEPT ![key_id] = [@ EXCEPT !.status = "revoked"]]
                  ELSE apiKeys
    /\ UNCHANGED <<now, edges, routes, nutrients, rep, dec, lastPrune, serial, interfered,
                   routerVars, memVars, sharedVars, lifeVars, rot, lastValidation, rejected, ctlVars>>

KeyExpired(row) == row.expires_at # NoTime /\ row.expires_at < now

\* APIKeyValidator.validate, lines 39-102: the row is read, checked for expiry
\* and status, and last_used_at is written for a valid key
validate(api_key) ==
    /\ used.validations < MaxValidations
    /\ Issued < MaxRequests
    /\ used' = [used EXCEPT !.validations = @ + 1]
    /\ LET found == api_key \in DOMAIN apiKeys
           refused == found /\ (KeyExpired(apiKeys[api_key]) \/ apiKeys[api_key].status # "active")
           valid == found /\ ~refused
       IN  /\ lastValidation' = [key |-> api_key, valid |-> valid, at |-> now]
           /\ rejected' = IF refused THEN rejected \cup {api_key} ELSE rejected
           /\ apiKeys' = IF valid THEN [apiKeys EXCEPT ![api_key] = [@ EXCEPT !.last_used_at = now]]
                         ELSE apiKeys
    /\ UNCHANGED <<now, edges, routes, nutrients, rep, dec, lastPrune, serial, interfered,
                   routerVars, memVars, sharedVars, lifeVars, rot, ctlVars>>

(***************************************************************************)
(* SpecKeys: keys of tenant tX are created, with and without an expiry,    *)
(* rotated, revoked and validated while time passes.                       *)
(***************************************************************************)
ExpiresInDaysChoices == {{}, {1}}

KeyTimeSteps == {1800, 2 * Day}

NextKeys ==
    \/ \E e \in ExpiresInDaysChoices : create_key("tX", e)
    \/ rotate_key
    \/ \E key_id \in SeqToSet(FreshKeys) : revoke_key(key_id)
    \/ \E api_key \in SeqToSet(FreshKeys) : validate(api_key)
    \/ \E dt \in KeyTimeSteps : Advance(dt)

SpecKeys == InitStore(<<>>) /\ [][NextKeys]_vars

(***************************************************************************)
(* bootstrap_admin_key (services/shared/startup.py): three awaited         *)
(* statements, so calls of two workers interleave between them.            *)
(***************************************************************************)
ADMIN_TENANT_ID == "admin"

\* SELECT COUNT(*) FROM api_keys WHERE tenant_id = $1 AND status = 'active'
ActiveAdminKeys ==
    {k \in DOMAIN apiKeys : apiKeys[k].tenant = ADMIN_TENANT_ID /\ apiKeys[k].status = "active"}

\* lines 108-115: the count; a positive count answers None
BootCount(w) ==
    /\ boot[w].pc \in {"idle", "done"}
    /\ used.boots < MaxBoots
    /\ Issued < MaxRequests
    /\ used' = [used EXCEPT !.boots = @ + 1]
    /\ boot' = [boot EXCEPT ![w] =
                   IF Cardinality(ActiveAdminKeys) > 0
                   THEN [pc |-> "done", result |-> "None"]
                   ELSE [pc |-> "tenant", result |-> "-"]]
    /\ UNCHANGED <<now, edges, routes, nutrients, rep, dec, lastPrune, serial, interfered,
                   routerVars, memVars, sharedVars, lifeVars, keyVars,
                   adminTenant, bootKeys, lastRegister>>

\* lines 117-125: the row of the admin tenant; without it the answer is None
BootTenant(w) ==
    /\ boot[w].pc = "tenant"
    /\ boot' = [boot EXCEPT ![w] =
                   IF adminTenant THEN [pc |-> "insert", result |-> "-"]
                   ELSE [pc |-> "done", result |-> "None"]]
    /\ UNCHANGED <<now, edges, routes, nutrients, rep, dec, lastPrune, serial, interfered, used,
                   routerVars, memVars, sharedVars, lifeVars, keyVars,
                   adminTenant, bootKeys, lastRegister>>

\* lines 127-150: the key is inserted, active, expiring in ten years, and returned
BootInsert(w) ==
    /\ boot[w].pc = "insert"
    /\ apiKeys' = apiKeys @@ (NewKeyId :> KeyRow(ADMIN_TENANT_ID, now + 3650 * Day))
    /\ boot' = [boot EXCEPT ![w] = [pc |-> "done", result |-> NewKeyId]]
    /\ bootKeys' = bootKeys \cup {NewKeyId}
    /\ UNCHANGED <<now, edges, routes, nutrients, rep, dec, lastPrune, serial, interfered, used,
                   routerVars, memVars, sharedVars, lifeVars, rot, lastValidation, rejected,
                   adminTenant, lastRegister>>

bootstrap_admin_key(w) ==
    \/ BootCount(w)
    \/ BootTenant(w)
    \/ BootInsert(w)

(***************************************************************************)
(* SpecBoot: two workers serve bootstrap calls while keys are revoked and  *)
(* validated.                                                              *)
(***************************************************************************)
NextBoot ==
    \/ \E w \in BootProcs : bootstrap_admin_key(w)
    \/ \E key_id \in SeqToSet(FreshKeys) : revoke_key(key_id)
    \/ \E api_key \in SeqToSet(FreshKeys) : validate(api_key)

SpecBoot == InitStore(<<>>) /\ [][NextBoot]_vars

(***************************************************************************)
(* register_agent (POST /v1/agents:register).  The collection's key is the *)
(* document's _id, which the handler sets to the agent id alone; region is *)
(* absent or a string.                                                     *)
(***************************************************************************)
\* lines 715-720: find_one with _id and tenant_id
RegisterFind(t, agent_id, embedding, capabilities, region) ==
    /\ lastRegister.pc \in {"idle", "done"}
    /\ used.registers < MaxRegisters
    /\ Issued < MaxRequests
    /\ used' = [used EXCEPT !.registers = @ + 1]
    /\ lastRegister' =
          [pc |-> "write", tenant |-> t, agent_id |-> agent_id, embedding |-> embedding,
           capabilities |-> capabilities, region |-> region,
           existing |-> agent_id \in DOMAIN agents /\ agents[agent_id].tenant_id = t,
           status |-> 0]
    /\ UNCHANGED <<now, edges, routes, nutrients, rep, dec, lastPrune, serial, interfered,
                   routerVars, memVars, sharedVars, lifeVars, keyVars,
                   adminTenant, boot, bootKeys>>

\* lines 753-763: the response reads agent_doc["region"], a key the document
\* has only when the request gave a region
RegisterResponse(r) == IF r.region = {} THEN 500 ELSE 200

\* lines 722-751: update_one by _id and tenant_id (metrics are kept), or
\* insert_one, which the store refuses when the _id is taken
RegisterWrite(docs, r) ==
    IF r.existing
    THEN [docs |-> IF r.agent_id \in DOMAIN docs /\ docs[r.agent_id].tenant_id = r.tenant
                   THEN [docs EXCEPT ![r.agent_id] =
                            [@ EXCEPT !.embedding = r.embedding,
                                      !.capabilities = r.capabilities]]
                   ELSE docs,
          status |-> RegisterResponse(r)]
    ELSE IF r.agent_id \in DOMAIN docs
    THEN [docs |-> docs, status |-> 500]
    ELSE [docs |-> docs @@ (r.agent_id :> AgentDoc(r.tenant, r.embedding, r.capabilities)),
          status |-> RegisterResponse(r)]

RegisterStore ==
    /\ lastRegister.pc = "write"
    /\ agents' = RegisterWrite(agents, lastRegister).docs
    /\ lastRegister' = [lastRegister EXCEPT !.pc = "done",
                                            !.status = RegisterWrite(agents, lastRegister).status]
    /\ UNCHANGED <<now, edges, routes, nutrients, rep, dec, lastPrune, serial, interfered, used,
                   edgeCache, brd, memVars, sharedVars, lifeVars, keyVars,
                   adminTenant, boot, bootKeys>>

RegionChoices == {{}, {"eu"}}

register_agent ==
    \/ \E t \in Tenants, a \in AgentIds, e \in {"e1", "e2"}, r \in RegionChoices :
          RegisterFind(t, a, e, {}, r)
    \/ RegisterStore

(***************************************************************************)
(* SpecRegister: both tenants register agents in an empty collection.      *)
(***************************************************************************)
NextRegister == register_agent

SpecRegister == InitWith(<<>>, <<>>) /\ [][NextRegister]_vars

(***************************************************************************)
(* Rate limiter (services/shared/rate_limiter.py).  Time is in seconds; a  *)
(* sorted set is the list of the scores of its members (the members of     *)
(* two requests differ, line 90) and the time its key expires.             *)
(***************************************************************************)
\* key = f"rate:{tenant_id}:{int(now // 60)}", line 81
RateKey(tenant_id, at) == <<tenant_id, at \div 60>>

\* the scores under a key, none once the key has expired
ScoresAt(key) ==
    IF key \in DOMAIN rateKeys /\ rateKeys[key].expires > now THEN rateKeys[key].scores
    ELSE <<>>

\* zremrangebyscore(key, 0, window_start): scores up to window_start go
RECURSIVE Newer(_, _)
Newer(scores, window_start) ==
    IF scores = <<>> THEN <<>>
    ELSE IF Head(scores) <= window_start THEN Newer(Tail(scores), window_start)
    ELSE <<Head(scores)>> \o Newer(Tail(scores), window_start)

\* the pipeline of lines 84-93 on the cache: trim, count, add, expire
PipelineWrites(key) ==
    (key :> [scores |-> Append(Newer(ScoresAt(key), now - 60), now), expires |-> now + 120])
        @@ rateKeys

\* an answer that denies the request when the cache fails
RateAnswerFailClosed(failed, current_count, limit_per_minute) ==
    IF failed \/ current_count >= limit_per_minute
    THEN [allowed |-> FALSE, remaining |-> 0, retry_after |-> Max2(60 - (now - (now - 60)), 1)]
    ELSE [allowed |-> TRUE, remaining |-> Max2(limit_per_minute - current_count - 1, 0),
          retry_after |-> 0]

\* lines 75-77 and 95-106
RateAnswer(failed, current_count, limit_per_minute) ==
    IF failed THEN [allowed |-> TRUE, remaining |-> limit_per_minute, retry_after |-> 0]
    ELSE IF current_count >= limit_per_minute
    THEN [allowed |-> FALSE, remaining |-> 0, retry_after |-> Max2(60 - (now - (now - 60)), 1)]
    ELSE [allowed |-> TRUE, remaining |-> Max2(limit_per_minute - current_count - 1, 0),
          retry_after |-> 0]

\* what an operation on the cache does: it succeeds, raises before the
\* pipeline ran, or raises after it ran
CacheFaults == {"none", "before", "after"}

\* check_rate_limit, lines 57-106
check_rate_limit(tenant_id, limit_per_minute, fault) ==
    /\ used.checks < MaxChecks
    /\ Issued < MaxRequests
    /\ used' = [used EXCEPT !.checks = @ + 1]
    /\ LET key == RateKey(tenant_id, now)
           current_count == Len(Newer(ScoresAt(key), now - 60))
           failed == ~limiterRedis \/ fault # "none"
           answer == RateAnswer(failed, current_count, limit_per_minute)
       IN  /\ rateKeys' = IF limiterRedis /\ fault # "before" THEN PipelineWrites(key)
                          ELSE rateKeys
           /\ lastCheck' = [tenant |-> tenant_id, limit |-> limit_per_minute, at |-> now,
                            allowed |-> answer.allowed, remaining |-> answer.remaining,
                            retry_after |-> answer.retry_after, failed |-> failed,
                            count |-> current_count]
           /\ allowedLog' = IF ~failed /\ answer.allowed
                            THEN Append(allowedLog, [tenant |-> tenant_id, at |-> now])
                            ELSE allowedLog
    /\ UNCHANGED <<now, edges, routes, nutrients, rep, dec, lastPrune, serial, interfered,
                   routerVars, memVars, limiterRedis, routing, lifeVars, keyVars, ctlVars>>

\* RateLimiter.connect, lines 41-49
connect ==
    /\ ~limiterRedis
    /\ limiterRedis' = TRUE
    /\ UNCHANGED <<now, edges, routes, nutrients, rep, dec, lastPrune, serial, interfered,
                   used, routerVars, memVars, rateKeys, lastCheck, allowedLog, routing, lifeVars, keyVars, ctlVars>>

\* RateLimiter.disconnect, lines 51-55
disconnect ==
    /\ limiterRedis
    /\ limiterRedis' = FALSE
    /\ UNCHANGED <<now, edges, routes, nutrients, rep, dec, lastPrune, serial, interfered,
                   used, routerVars, memVars, rateKeys, lastCheck, allowedLog, routing, lifeVars, keyVars, ctlVars>>

(***************************************************************************)
(* SpecRate: the requests of two tenants pass the limiter, each tenant     *)
(* with the limit of its key, while time passes and the cache client comes *)
(* and goes.                                                               *)
(***************************************************************************)
\* rate_limit_per_minute of the tenant's key
RateLimitOf(tenant_id) == IF tenant_id = "tX" THEN 1 ELSE 2

RateTimeSteps == {2, 59}

NextRate ==
    \/ \E t \in Tenants, fault \in CacheFaults : check_rate_limit(t, RateLimitOf(t), fault)
    \/ connect
    \/ disconnect
    \/ \E dt \in RateTimeSteps : Advance(dt)

SpecRate == InitStore(<<>>) /\ [][NextRate]_vars

(***************************************************************************)
(* Spec: outcome reports of both tenants, handled by two workers at once.  *)
(***************************************************************************)
Next ==
    \E p \in RepProcs : record_outcome(p)

Spec == Init /\ [][Next]_vars

(***************************************************************************)
(* SpecDecay: the reinforcement engine over time: outcome reports and      *)
(* prunes of tenant tX, decay runs (background tick or manual trigger,     *)
(* over the edges of all tenants), and the clock.                          *)
(***************************************************************************)
NextDecay ==
    \/ \E sc \in Scores : OutcomeFetch("r1", "tX", "tr-2", sc, {})
    \/ OutcomeSteps("r1")
    \/ \E d \in DecProcs : run_time_decay(d)
    \/ \E th \in PruneThresholds : prune_weak_edges("tX", th)
    \/ \E dt \in TimeSteps : Advance(dt)

\* the edge A -> A of tenant tX, near the floor or near the ceiling, beside an
\* edge A -> B of tX and a weak edge of tenant tY
DecayEdgeTables ==
    {tbl @@ (<<"tX", "A", "B">> :> EdgeRow(5000, 0, 0, 0, 0))
         @@ (<<"tY", "A", "A">> :> EdgeRow(150, 0, 0, 0, 0)) : tbl \in SeedEdgeTables}

InitDecay == \E tbl \in DecayEdgeTables : InitStore(tbl)

SpecDecay == InitDecay /\ [][NextDecay]_vars

(***************************************************************************)
(* SpecTrigger: tenant tX calls POST /v1/edges:decay while time passes;    *)
(* the store holds edges of tX and of tY.                                  *)
(***************************************************************************)
\* trigger_decay, lines 679-696: the tenant of the key is validated and not
\* passed on
trigger_decay(tenant_id, d) == tenant_id \in Tenants /\ run_time_decay(d)

NextTrigger ==
    \/ \E d \in DecProcs : trigger_decay("tX", d)
    \/ \E dt \in TimeSteps : Advance(dt)

SpecTrigger == InitDecay /\ [][NextTrigger]_vars

(***************************************************************************)
(* SpecTask: the background task ticks, its statements may raise, time     *)
(* passes, and the process is shut down.  The event loop resumes a         *)
(* cancelled task and the handler that awaits it, and runs the shutdown    *)
(* handlers one after the other.                                           *)
(***************************************************************************)
NextTask ==
    \/ decay_background_task
    \/ shutdown
    \/ stop_decay_task
    \/ \E dt \in TimeSteps : Advance(dt)

SpecTask ==
    /\ InitDecay
    /\ [][NextTask]_vars
    /\ WF_vars(TaskCancelled)
    /\ WF_vars(StopCancel)
    /\ WF_vars(StopReturn)

(***************************************************************************)
(* SpecBroadcast: broadcasts, the outcome reports for their traces, and    *)
(* the clock.                                                              *)
(***************************************************************************)
BroadcastTimeSteps == {1800}

\* the client reports the outcome of the trace a successful broadcast returned
ReportReturnedTrace(p, b) ==
    /\ brd[b].pc = "done"
    /\ brd[b].status = 200
    /\ OutcomeFetch(p, brd[b].tenant, brd[b].trace, 100, NoHops)

\* the client of SpecBroadcast issues its requests one after the other
ClientIdle == \A p \in RepProcs : rep[p].pc \in {"idle", "done"}

\* the time that passes while a request is served is short against the quota
\* windows; the clock of SpecBroadcast moves between requests
BetweenRequests == ClientIdle /\ \A b \in BrdProcs : brd[b].pc \in {"idle", "done"}

ClientBroadcasts(b) == ClientIdle /\ BroadcastRequest(b)

TimeBetweenRequests(dt) == BetweenRequests /\ Advance(dt)

NextBroadcast ==
    \/ \E b \in BrdProcs : ClientBroadcasts(b)
    \/ \E b \in BrdProcs : BroadcastSteps(b)
    \/ \E b \in BrdProcs : ReportReturnedTrace("r1", b)
    \/ OutcomeSteps("r1")
    \/ \E dt \in BroadcastTimeSteps : TimeBetweenRequests(dt)

\* the source agent A has itself and B as neighbors
BroadcastEdgeTable ==
    (<<"tX", "A", "A">> :> EdgeRow(1000, 0, 0, 0, 0)) @@
    (<<"tX", "A", "B">> :> EdgeRow(8000, 0, 0, 0, 0))

InitBroadcast == InitStore(BroadcastEdgeTable)

SpecBroadcast == InitBroadcast /\ [][NextBroadcast]_vars

(***************************************************************************)
(* SpecGrow: a fresh network of tenant tX: agents A and B are registered,  *)
(* the edge table and the route log are empty, and the client registers,   *)
(* broadcasts, reports the returned traces, triggers decay and prunes      *)
(* while time passes.  Every request that can be served is served.         *)
(***************************************************************************)
GrowBroadcasts(b) ==
    /\ ClientIdle
    /\ \E src \in AgentIds, hints \in HintChoices :
          BroadcastStart(b, "tX", src, "e1", hints, 180, 3, 100, 0)

GrowRegisters ==
    \/ \E a \in AgentIds : RegisterFind("tX", a, "e2", {"db"}, {"eu"})
    \/ RegisterStore

NextGrow ==
    \/ GrowRegisters
    \/ \E b \in BrdProcs : GrowBroadcasts(b)
    \/ \E b \in BrdProcs : BroadcastSteps(b)
    \/ \E b \in BrdProcs : ReportReturnedTrace("r1", b)
    \/ OutcomeSteps("r1")
    \/ \E d \in DecProcs : trigger_decay("tX", d)
    \/ \E th \in PruneThresholds : prune_weak_edges("tX", th)
    \/ \E dt \in BroadcastTimeSteps : TimeBetweenRequests(dt)

InitGrow == InitLog(<<>>, SeedAgents, <<>>, <<>>) /\ routing = NoRouting

SpecGrow == InitGrow /\ [][NextGrow]_vars /\ WF_vars(NextGrow)

(***************************************************************************)
(* SpecPrecondition: the broadcasts of the agents of tenant tX, with the   *)
(* shortest TTL among them, and the outcome reports for their traces.      *)
(***************************************************************************)
ShortTtlChoices == {0, 1, 180}

ClientBroadcastsShort(b) ==
    /\ ClientIdle
    /\ \E src \in AgentIds, hints \in HintChoices, ttl \in ShortTtlChoices,
          pause \in PauseChoices :
          BroadcastStart(b, "tX", src, "e1", hints, ttl, 3, 1, pause)

NextPrecondition ==
    \/ \E b \in BrdProcs : ClientBroadcastsShort(b)
    \/ \E b \in BrdProcs : BroadcastSteps(b)
    \/ \E b \in BrdProcs : ReportReturnedTrace("r1", b)
    \/ OutcomeSteps("r1")

SpecPrecondition == InitBroadcast /\ [][NextPrecondition]_vars

(***************************************************************************)
(* SpecFanout: the broadcasts of agent A of tenant tX when A has five      *)
(* neighbors: itself, B, C, D and E.                                       *)
(***************************************************************************)
FanoutAgents ==
    SeedAgents @@ ("C" :> AgentDoc("tX", "e1", {})) @@ ("D" :> AgentDoc("tX", "e2", {"db"}))
               @@ ("E" :> AgentDoc("tX", "-e1", {}))

FanoutEdgeTable ==
    BroadcastEdgeTable @@ (<<"tX", "A", "C">> :> EdgeRow(6000, 0, 0, 0, 0))
                       @@ (<<"tX", "A", "D">> :> EdgeRow(12000, 0, 0, 0, 0))
                       @@ (<<"tX", "A", "E">> :> EdgeRow(9000, 0, 0, 0, 0))

BroadcastFromA(b) ==
    \E hints \in HintChoices : BroadcastStart(b, "tX", "A", "e1", hints, 180, 3, 1, 0)

NextFanout ==
    \/ \E b \in BrdProcs : BroadcastFromA(b)
    \/ \E b \in BrdProcs : BroadcastSteps(b)

InitFanout == InitWith(FanoutEdgeTable, FanoutAgents)

SpecFanout == InitFanout /\ [][NextFanout]_vars

(***************************************************************************)
(* SpecFault: the broadcasts of agent A while statements of the stores may *)
(* fail.                                                                   *)
(***************************************************************************)
\* lines 519-524: the statement the handler awaits raises (the store is
\* unreachable, the statement times out); the statement has no effect and the
\* handler's except answers 500
BroadcastRaises(b) ==
    /\ brd[b].pc \in {"count", "edges", "agents", "store", "self", "routes"}
    /\ brd' = [brd EXCEPT ![b] = BrdAnswer(b, 500)]
    /\ UNCHANGED <<now, edges, routes, nutrients, rep, dec, lastPrune, serial, interfered,
                   used, agents, edgeCache, memVars,
                   sharedVars, lifeVars, keyVars, ctlVars>>

NextFault ==
    \/ \E b \in BrdProcs : BroadcastFromA(b)
    \/ \E b \in BrdProcs : BroadcastSteps(b)
    \/ \E b \in BrdProcs : BroadcastRaises(b)

SpecFault == InitBroadcast /\ [][NextFault]_vars

(***************************************************************************)
(* SpecCap: tenant tX with two edges and tenant tY with 210 edges          *)
(* broadcast through the same router process while time passes; nothing    *)
(* writes the edge table.                                                  *)
(***************************************************************************)
CrowdAgents ==
    {"a01", "a02", "a03", "a04", "a05", "a06", "a07", "a08", "a09", "a10",
     "a11", "a12", "a13", "a14", "a15"}

\* every agent of tY has an edge to every other one
CrowdEdgeTable ==
    [k \in {<<"tY", p[1], p[2]>> : p \in {q \in CrowdAgents \X CrowdAgents : q[1] # q[2]}} |->
        EdgeRow(1000, 0, 0, 0, 0)]

CapEdgeTable == BroadcastEdgeTable @@ CrowdEdgeTable

CapSource(t) == IF t = "tX" THEN "A" ELSE "a01"

CapTimeSteps == {120, 400}

BroadcastOfTenant(b) ==
    \E t \in Tenants : BroadcastStart(b, t, CapSource(t), "e1", <<>>, 180, 3, 1, 0)

NextCap ==
    \/ \E b \in BrdProcs : BroadcastOfTenant(b)
    \/ \E b \in BrdProcs : BroadcastSteps(b)
    \/ \E dt \in CapTimeSteps : Advance(dt)

InitCap == InitStore(CapEdgeTable)

SpecCap == InitCap /\ [][NextCap]_vars

(***************************************************************************)
(* SpecHopOrder: the broadcasts of agent A of tenant tX and the outcome    *)
(* reports for their traces and for the two-hop trace tr-0.                *)
(***************************************************************************)
ClientBroadcastsFromA(b) == ClientIdle /\ BroadcastFromA(b)

ReportTwoHopTrace(p) == OutcomeFetch(p, "tX", "tr-0", 100, NoHops)

NextHopOrder ==
    \/ \E b \in BrdProcs : ClientBroadcastsFromA(b)
    \/ \E b \in BrdProcs : BroadcastSteps(b)
    \/ \E b \in BrdProcs : ReportReturnedTrace("r1", b)
    \/ ReportTwoHopTrace("r1")
    \/ OutcomeSteps("r1")

SpecHopOrder == InitBroadcast /\ [][NextHopOrder]_vars

(***************************************************************************)
(* SpecRecreate: two workers serve the outcome reports of tenant tX for    *)
(* the trace tr-2 (edge A -> A) while the tenant's weak edges are pruned.  *)
(***************************************************************************)
NextRecreate ==
    \/ \E p \in RepProcs, sc \in Scores : OutcomeFetch(p, "tX", "tr-2", sc, NoHops)
    \/ \E p \in RepProcs : OutcomeSteps(p)
    \/ \E th \in PruneThresholds : prune_weak_edges("tX", th)

SpecRecreate == Init /\ [][NextRecreate]_vars

(***************************************************************************)
(* SpecCredit: one worker serves the outcome reports of tenant tX for the  *)
(* trace tr-1 (routes A -> A and A -> B), bodies of every shape.           *)
(***************************************************************************)
NextCredit ==
    \/ \E body \in OutcomeBodies : OutcomePost("r1", "tX", "tr-1", body)
    \/ OutcomeSteps("r1")

SpecCredit == Init /\ [][NextCredit]_vars

(***************************************************************************)
(* Properties.                                                             *)
(***************************************************************************)

\* C1: in every reachable state, whatever the interleaving of outcome
\* reports, decay runs and prunes, every stored edge has 0.01 <= w <= 1.5,
\* a lazily created edge between its insert and its first update included.
WeightWithinBounds ==
    \A k \in DOMAIN edges : MIN_WEIGHT <= edges[k].w /\ edges[k].w <= MAX_WEIGHT

\* a decay run has deleted an edge, a prune has been served, and a report has
\* created the edge again and not yet updated it
WeightWithinBoundsWitness ==
    /\ \E d \in DecProcs : dec[d].deleted > 0
    /\ \E p \in RepProcs :
          /\ rep[p].pc = "update"
          /\ RepKey(p) \in DOMAIN edges
          /\ serial[RepKey(p)].fresh
          /\ edges[RepKey(p)].w = INITIAL_WEIGHT
    /\ lastPrune.status = 200

\* C2: once two reports for distinct traces through the same existing edge
\* have both been answered 200, the edge holds what the two plasticity updates
\* applied one after the other give: both scores in r_success and r_decay,
\* both deltas in w.
NoLostCredit ==
    \A p, q \in RepProcs :
        ( /\ p # q
          /\ rep[p].pc = "done" /\ rep[p].status = 200
          /\ rep[q].pc = "done" /\ rep[q].status = 200
          /\ rep[p].tenant = rep[q].tenant
          /\ rep[p].trace # rep[q].trace )
        => \A k \in DOMAIN edges :
              ( /\ k[1] = rep[p].tenant
                /\ serial[k].pure /\ ~serial[k].fresh
                /\ \A tr \in {rep[p].trace, rep[q].trace} :
                      \E n \in DOMAIN routes :
                          /\ routes[n].trace = tr
                          /\ routes[n].src = k[2] /\ routes[n].dst = k[3] )
              => /\ edges[k].r_success = serial[k].r_success
                 /\ edges[k].r_decay = serial[k].r_decay
                 /\ edges[k].w = serial[k].w

\* the report of worker p names a trace whose route rows all belong to
\* tenants other than the reporting one
IsCrossTenant(p) ==
    /\ rep[p].pc \notin {"idle", "done"}
    /\ \E n \in DOMAIN routes : routes[n].trace = rep[p].trace
    /\ \A n \in DOMAIN routes :
          routes[n].trace = rep[p].trace => routes[n].tenant # rep[p].tenant

\* C3: a report by tenant X for a trace whose route rows belong to another
\* tenant is treated as an unknown trace: no step of it creates or changes an
\* edge or a route row.
CrossTenantReportChangesNothing ==
    [][\A p \in RepProcs :
          (IsCrossTenant(p) /\ rep'[p] # rep[p]) => (edges' = edges /\ routes' = routes)]_vars

\* no route row carries trace id tr
NoRouteOf(tr) == \A n \in DOMAIN routes : routes[n].trace # tr

\* C6: a report for a trace id without route rows is answered 404, never
\* 500, and never enters the steps that change edges or route rows.
UnknownTraceAnswered404 ==
    \A p \in RepProcs :
        (rep[p].pc # "idle" /\ NoRouteOf(rep[p].trace))
        => (rep[p].pc = "done" /\ rep[p].status = 404)

\* a report for the unknown trace has been answered while the other worker has
\* credited an edge
UnknownTraceAnswered404Witness ==
    \E p, q \in RepProcs :
        /\ rep[p].pc = "done" /\ rep[p].trace = UnknownTrace /\ rep[p].status = 404
        /\ rep[q].pc = "done" /\ rep[q].status = 200

\* C7: a step of a report for trace T creates or changes only edges
\* (src, dst) of the reporting tenant for which T has a route row with that
\* src and dst; every other edge keeps its row.
CreditTouchesOnlyPathEdges ==
    [][\A p \in RepProcs :
          rep'[p] # rep[p]
          => \A k \in DOMAIN edges \cup DOMAIN edges' :
                ( \/ k \notin DOMAIN edges
                  \/ k \notin DOMAIN edges'
                  \/ edges'[k] # edges[k] )
                => /\ k[1] = rep[p].tenant
                   /\ \E n \in DOMAIN routes :
                         /\ routes[n].trace = rep[p].trace
                         /\ routes[n].src = k[2]
                         /\ routes[n].dst = k[3]]_vars

\* a report for the two-route trace has been answered 200 and has created the
\* edge A -> B of its tenant beside the credited edge A -> A
CreditTouchesOnlyPathEdgesWitness ==
    \E p \in RepProcs :
        /\ rep[p].pc = "done" /\ rep[p].status = 200 /\ rep[p].trace = "tr-1"
        /\ <<rep[p].tenant, "A", "B">> \in DOMAIN edges
        /\ edges[<<rep[p].tenant, "A", "B">>].r_success + edges[<<rep[p].tenant, "A", "B">>].r_decay
              = ScoreUnit

\* C8: every step that changes the weight of an edge, a credit or a decay,
\* also sets the edge's last_update to the time of the change.
WeightChangeStampsLastUpdate ==
    [][\A k \in DOMAIN edges \cap DOMAIN edges' :
          edges'[k].w # edges[k].w => edges'[k].last_update = now]_vars

\* C9: the decay run deletes an edge only if, at the moment of the deletion,
\* the edge's last_update is more than 30 days in the past and its decayed
\* weight is below 0.02; an edge credited during the run is not deleted.
DecayDeletesOnlyStaleWeak ==
    [][\A d \in DecProcs :
          dec'[d] # dec[d]
          => \A k \in DOMAIN edges \ DOMAIN edges' :
                /\ now - edges[k].last_update > STALE_EDGE_MAX_AGE_DAYS * Day
                /\ clamp_weight(calculate_time_decay(edges[k].w, now - edges[k].last_update))
                      < STALE_EDGE_MIN_WEIGHT]_vars

\* what a decay run that started at time t0 on the table start leaves when
\* nothing else writes: the edges older than an hour are deleted if stale and
\* weak, and carry the decayed weight otherwise
TickConsiders(start, t0, k) == t0 - start[k].last_update > Hour

TickWeight(start, t0, k) ==
    Max2(MIN_WEIGHT, Min2(MAX_WEIGHT,
        calculate_time_decay(start[k].w, t0 - start[k].last_update)))

TickDeletes(start, t0, k) ==
    /\ TickConsiders(start, t0, k)
    /\ TickWeight(start, t0, k) < STALE_EDGE_MIN_WEIGHT
    /\ t0 - start[k].last_update > STALE_EDGE_MAX_AGE_DAYS * Day

\* C10: a decay run without concurrent writers considers exactly the edges
\* whose last_update is more than an hour old; it deletes such an edge iff
\* w_new < 0.02 and days_stale > 30, otherwise it rewrites the weight to w_new
\* iff w_new differs from w; every other edge is left untouched.
SequentialTickEffect ==
    [][\A d \in DecProcs :
          (dec'[d] # dec[d] /\ dec'[d].pc = "done" /\ ~interfered'[d])
          => LET start == dec'[d].start
                 t0 == dec'[d].t0
             IN  /\ DOMAIN edges' = {k \in DOMAIN start : ~TickDeletes(start, t0, k)}
                 /\ \A k \in DOMAIN edges' :
                       IF TickConsiders(start, t0, k)
                       THEN /\ edges'[k].w = TickWeight(start, t0, k)
                            /\ edges'[k].sim = start[k].sim
                            /\ edges'[k].r_success = start[k].r_success
                            /\ edges'[k].r_decay = start[k].r_decay
                       ELSE edges'[k] = start[k]]_vars

\* an undisturbed run has finished having deleted an edge, rewritten another
\* and passed over a third that was credited within the last hour
SequentialTickEffectWitness ==
    \E d \in DecProcs :
        /\ dec[d].pc = "done" /\ ~interfered[d]
        /\ dec[d].deleted > 0 /\ dec[d].decayed > 0
        /\ \E k \in DOMAIN dec[d].start :
              /\ ~TickConsiders(dec[d].start, dec[d].t0, k)
              /\ dec[d].start[k].last_update > 0

\* C4: a well-formed broadcast that arrives with the tenant's per-minute or
\* per-hour quota exhausted is answered 429 and persists neither a nutrient
\* row nor a route row.
QuotaExhaustedRejected ==
    \A b \in BrdProcs :
        brd[b].over
        => /\ brd[b].pc = "done" => brd[b].status = 429
           /\ \A n \in nutrients : n.id # brd[b].nutrient
           /\ \A n \in DOMAIN routes : routes[n].trace # brd[b].trace

\* the rows that are self-routes of the broadcast last answered by worker b
SelfRoutesOf(b) ==
    {n \in DOMAIN routes :
        /\ routes[n].trace = brd[b].trace
        /\ routes[n].tenant = brd[b].tenant
        /\ routes[n].src = brd[b].src /\ routes[n].dst = brd[b].src
        /\ routes[n].hop = 0
        /\ routes[n].routing_score = 100}

\* C5: a broadcast answered 200 has persisted exactly one self-route row
\* (src = dst = source agent, hop 0, score 1.0) under the returned trace id,
\* with or without neighbors, and a report by the same tenant for a returned
\* trace id is never answered 404.
SelfRoutePersisted ==
    /\ \A b \in BrdProcs :
          (brd[b].pc = "done" /\ brd[b].status = 200) => Cardinality(SelfRoutesOf(b)) = 1
    /\ \A p \in RepProcs :
          (rep[p].pc = "done" /\ rep[p].trace \in SeqToSet(FreshTraces)) => rep[p].status # 404

\* a source agent without neighbors got its 200, and the report for the
\* returned trace has been answered 200 as well
SelfRoutePersistedWitness ==
    \E b \in BrdProcs, p \in RepProcs :
        /\ brd[b].pc = "done" /\ brd[b].status = 200 /\ brd[b].routed = <<brd[b].src>>
        /\ Cardinality({n \in DOMAIN routes : routes[n].trace = brd[b].trace}) = 1
        /\ rep[p].pc = "done" /\ rep[p].trace = brd[b].trace
        /\ rep[p].tenant = brd[b].tenant /\ rep[p].status = 200

\* the edges the store held when the services started
SeedKeys == UNION {DOMAIN tbl : tbl \in SeedEdgeTables}

\* the edge k was deleted and has been created again by a report, and no
\* credit has been written to it since
RecreatedUncredited(k) ==
    /\ k \in SeedKeys
    /\ k \in DOMAIN edges
    /\ serial[k].fresh
    /\ serial[k].w = INITIAL_WEIGHT /\ serial[k].r_success = 0 /\ serial[k].r_decay = 0

\* C11: after an edge has been deleted, the next credit written for the same
\* (src, dst) with score o leaves it at w = clamp(0.1 + delta(o)),
\* r_success = o, r_decay = 1 - o, whatever its state before the deletion.
RecreatedEdgeStartsFresh ==
    [][\A p \in RepProcs :
         (/\ rep[p].pc = "update"
          /\ rep'[p].pc = "route"
          /\ RecreatedUncredited(RepKey(p)))
         => LET o == RepHopScore(p)
                e == edges'[RepKey(p)]
            IN  /\ e.w = Max2(MIN_WEIGHT, Min2(MAX_WEIGHT,
                                INITIAL_WEIGHT + calculate_weight_delta(o, INITIAL_WEIGHT)))
                /\ e.r_success = o
                /\ e.r_decay = ScoreUnit - o]_vars

\* C12: while an edge exists, no step lowers its accumulators r_success and
\* r_decay, under any interleaving of outcome reports and decay ticks.
AccumulatorsNeverDecrease ==
    [][\A k \in DOMAIN edges \cap DOMAIN edges' :
         /\ edges'[k].r_success >= edges[k].r_success
         /\ edges'[k].r_decay >= edges[k].r_decay]_vars

\* the score the report of worker p owes the route record it is crediting
OwedScore(p) ==
    LET dst == routes[rep[p].cur].dst
        given == {h \in rep[p].hops : h[1] = dst}
    IN  IF given # {} THEN (CHOOSE h \in given : TRUE)[2] ELSE rep[p].score

\* C13: for each route record of the reported trace, the edge is credited
\* with the per-agent score given for the record's destination agent when the
\* map contains that agent and with the uniform score otherwise, and the same
\* score is written to the record's outcome_score.
PerAgentScoreCredited ==
    [][\A p \in RepProcs :
         /\ (rep[p].pc = "update" /\ rep'[p].pc = "route" /\ RepKey(p) \in DOMAIN edges)
            => /\ edges'[RepKey(p)].r_success = rep[p].edge.r_success + OwedScore(p)
               /\ edges'[RepKey(p)].r_decay = rep[p].edge.r_decay + (ScoreUnit - OwedScore(p))
               /\ edges'[RepKey(p)].w =
                     Max2(MIN_WEIGHT, Min2(MAX_WEIGHT,
                          rep[p].edge.w + calculate_weight_delta(OwedScore(p), rep[p].edge.w)))
         /\ (rep[p].pc = "route" /\ rep'[p].pc # "route")
            => routes'[rep[p].cur].outcome_score = OwedScore(p)]_vars

\* a report with uniform score 1.0 and the map {B: 0.0} has credited the
\* record A -> A with 1.0 and has written the edge A -> B with 0.0
PerAgentScoreCreditedWitness ==
    \E p \in RepProcs :
       /\ rep[p].pc = "route"
       /\ rep[p].score = 100
       /\ rep[p].hops = {<<"B", 0>>}
       /\ routes[rep[p].cur].dst = "B"
       /\ edges[RepKey(p)].r_decay = ScoreUnit
       /\ \E n \in DOMAIN routes :
             routes[n].trace = rep[p].trace /\ routes[n].dst = "A" /\ routes[n].outcome_score = 100

\* the body supplies a uniform score, directly or in the nested outcome object
SuppliesUniform(body) == body.outcome_score # {} \/ body.outcome # {}

\* every score the body supplies lies in [0,1]
AllScoresInRange(body) ==
    /\ \A x \in body.outcome_score \cup body.outcome : 0 <= x /\ x <= ScoreUnit
    /\ \A h \in body.hop_outcomes : 0 <= h[2] /\ h[2] <= ScoreUnit

\* the request of worker p is rejected before anything is changed
RejectedUnchanged(p) ==
    /\ rep'[p].pc = "done"
    /\ rep'[p].status = 422
    /\ edges' = edges
    /\ routes' = routes

\* C14 as stated: a report is accepted whenever it supplies a uniform score
\* or a per-agent map (the map alone suffices) and all its scores lie in
\* [0,1]; otherwise it is rejected before any edge or route is changed.
MapAloneAccepted ==
    [][\A p \in RepProcs, t \in Tenants, tr \in TraceIds, body \in OutcomeBodies :
         OutcomePost(p, t, tr, body)
         => IF (SuppliesUniform(body) \/ body.hop_outcomes # {}) /\ AllScoresInRange(body)
            THEN rep'[p].status # 422
            ELSE RejectedUnchanged(p)]_vars

\* C14: a report is accepted exactly when it supplies a uniform score
\* (outcome_score or outcome.score) and every score it supplies, the values
\* of the per-agent map included, lies in [0,1]; a report with the map alone,
\* with neither, or with a score outside [0,1] is rejected as a validation
\* error before any edge or route record is changed.
UniformScoreRequired ==
    [][\A p \in RepProcs, t \in Tenants, tr \in TraceIds, body \in OutcomeBodies :
         OutcomePost(p, t, tr, body)
         => IF SuppliesUniform(body) /\ AllScoresInRange(body)
            THEN rep'[p].status # 422
            ELSE RejectedUnchanged(p)]_vars

\* a report with only the nested score and a map has been accepted and is
\* being served, after a report was answered 422
UniformScoreRequiredWitness ==
    \E p \in RepProcs :
       /\ rep[p].pc = "select"
       /\ rep[p].score = 0
       /\ rep[p].hops = {<<"B", 0>>}
       /\ used.reports = 2

\* 0.08 * o - 0.04 * (1 - o) - 0.002, in units of 10^-4
StatedDelta(o) == (800 * o - 400 * (100 - o)) \div 100 - 20

\* weights at the clamp bounds, at the initial value and in between
WeightSamples == {MIN_WEIGHT, 160, INITIAL_WEIGHT, 14260, MAX_WEIGHT}

\* C15: a credit with score o of an edge read at weight w stores the weight
\* clamp(w + 0.08*o - 0.04*(1-o) - 0.002, 0.01, 1.5); the delta does not
\* depend on w, is strictly increasing in o, and is strictly smaller than
\* 0.08*o for every o in [0,1].
WeightDeltaLaw ==
    /\ \A o \in 0..ScoreUnit :
          /\ \A w \in WeightSamples : calculate_weight_delta(o, w) = StatedDelta(o)
          /\ \A o2 \in 0..ScoreUnit :
                o < o2 => calculate_weight_delta(o, INITIAL_WEIGHT)
                            < calculate_weight_delta(o2, INITIAL_WEIGHT)
          /\ calculate_weight_delta(o, INITIAL_WEIGHT) * 100 < 800 * o
    /\ [][\A p \in RepProcs :
            (rep[p].pc = "update" /\ rep'[p].pc = "route" /\ RepKey(p) \in DOMAIN edges)
            => LET sum == rep[p].edge.w + StatedDelta(RepHopScore(p))
               IN  edges'[RepKey(p)].w =
                     IF sum < 100 THEN 100 ELSE IF sum > 15000 THEN 15000 ELSE sum]_vars

\* credits have been stored unclamped (0.1 - 0.042 on A -> B) and clamped at
\* the ceiling (1.426 + 0.078 on A -> A)
WeightDeltaLawWitness ==
    /\ <<"tX", "A", "B">> \in DOMAIN edges
    /\ edges[<<"tX", "A", "B">>].w = 580
    /\ edges[<<"tX", "A", "A">>].w = MAX_WEIGHT
    /\ edges[<<"tX", "A", "A">>].r_success = 1800

\* the TTL and hop precondition check of broadcast b fails: the request is
\* well-formed and can_forward returns False
PreconditionFails(ttl, hops, cost, pause) ==
    /\ ttl >= 1 /\ ttl <= 3600 /\ hops >= 1 /\ hops <= 10 /\ cost >= 1 /\ cost <= 100
    /\ (pause >= ttl \/ hops <= 0)

\* C16: a broadcast whose TTL/hop precondition check fails is answered 409,
\* not 500, and persists no nutrient row and no route record.
PreconditionFailureAnswered409 ==
    [][\A b \in BrdProcs, src \in AgentIds, hints \in HintChoices,
          ttl \in ShortTtlChoices, pause \in PauseChoices :
         (/\ BroadcastStart(b, "tX", src, "e1", hints, ttl, 3, 1, pause)
          /\ PreconditionFails(ttl, 3, 1, pause))
         => /\ brd'[b].pc = "done"
            /\ brd'[b].status = 409
            /\ nutrients' = nutrients
            /\ routes' = routes]_vars

\* a request of broadcast worker b is being served or has just arrived
BroadcastActs(b) == brd'[b] # brd[b]

\* C17: a broadcast, whether it succeeds or fails, leaves every edge
\* unchanged (weight, similarity, accumulators, last_update) and creates and
\* deletes none; it only appends a nutrient row and route records.  Edges
\* change only in steps of outcome reports, decay and prune.
BroadcastLeavesEdges ==
    [][/\ (\E b \in BrdProcs : BroadcastActs(b))
          => /\ edges' = edges
             /\ nutrients \subseteq nutrients'
             /\ Len(routes') >= Len(routes)
             /\ \A n \in 1..Len(routes) : routes'[n] = routes[n]
       /\ edges' # edges
          => \/ \E p \in RepProcs : rep'[p] # rep[p]
             \/ \E d \in DecProcs : dec'[d] # dec[d]
             \/ lastPrune' # lastPrune \/ used'.prunes # used.prunes]_vars

\* a broadcast has succeeded with two neighbors, one has failed, and a
\* report has changed an edge since
BroadcastLeavesEdgesWitness ==
    /\ \E b \in BrdProcs : brd[b].pc = "done" /\ brd[b].status = 500
    /\ \E n \in nutrients : Cardinality({m \in 1..Len(routes) : routes[m].nutrient = n.id}) = 3
    /\ edges # BroadcastEdgeTable

\* the route records of trace tr in the order they were written
RecordsOf(log, tr) ==
    LET OfTrace(r) == r.trace = tr IN SelectSeq(log, OfTrace)

\* C18: a successful broadcast that selects neighbors has persisted, when it
\* responds, the self-route and after it exactly one route record per
\* selected neighbor, at most 3, each with src = source agent, hop 0, the
\* broadcast's nutrient id and trace id and that neighbor's routing score;
\* routed_to lists exactly those neighbors.
OneRoutePerSelectedNeighbor ==
    [][\A b \in BrdProcs :
         (brd[b].pc = "routes" /\ brd'[b].pc = "done" /\ brd'[b].status = 200)
         => LET recs == RecordsOf(routes', brd[b].trace)
                routed == brd'[b].routed
            IN  /\ Len(routed) >= 1 /\ Len(routed) <= 3
                /\ Len(recs) = Len(routed) + 1
                /\ recs[1].src = brd[b].src /\ recs[1].dst = brd[b].src
                /\ \A i, j \in DOMAIN routed : i # j => routed[i] # routed[j]
                /\ \A i \in DOMAIN routed :
                      /\ recs[i + 1].dst = routed[i]
                      /\ recs[i + 1].src = brd[b].src
                      /\ recs[i + 1].hop = 0
                      /\ recs[i + 1].tenant = brd[b].tenant
                      /\ recs[i + 1].nutrient = brd[b].nutrient
                      /\ \E nb \in brd[b].neighbors :
                            /\ nb.id = routed[i]
                            /\ recs[i + 1].routing_score
                                  = calculate_routing_score(brd[b].emb, brd[b].hints, nb)]_vars

\* a broadcast with four neighbors above the threshold (A itself among them,
\* at score 0.20 by its capability boost) has responded with three of them
OneRoutePerSelectedNeighborWitness ==
    \E b \in BrdProcs :
       /\ brd[b].pc = "done" /\ brd[b].status = 200
       /\ Len(brd[b].routed) = 3
       /\ Len(RecordsOf(routes, brd[b].trace)) = 4
       /\ \E n \in DOMAIN routes :
             /\ routes[n].trace = brd[b].trace
             /\ routes[n].dst \in {"A", "B"}
             /\ routes[n].routing_score = 20
       /\ \E n \in DOMAIN routes :
             /\ routes[n].trace = brd[b].trace
             /\ routes[n].dst = "D"
             /\ routes[n].routing_score = 40

\* worker p turns to a route record in this step: the first of a report or
\* the next of its loop
TurnsToRecord(p) ==
    /\ rep'[p].pc = "select"
    /\ rep[p].pc \in {"idle", "done", "route"}

\* C19 as stated: within one trace id no two route records written by the
\* broadcasts share a hop number, and record_outcome applies its credits in
\* strictly ascending hop order.
HopNumbersDistinct ==
    /\ [](\A n, m \in (Len(SeedRoutes) + 1)..Len(routes) :
            (n # m /\ routes[n].trace = routes[m].trace) => routes[n].hop # routes[m].hop)
    /\ [][\A p \in RepProcs :
            (TurnsToRecord(p) /\ rep[p].pc = "route")
            => routes[rep[p].cur].hop < routes[rep'[p].cur].hop]_vars

\* C19: every route record of a broadcast, the self-route and the neighbor
\* records alike, is written at hop 0, so the records of a trace can share a
\* hop number; record_outcome applies its credits in non-descending hop
\* order: the record it turns to has the least hop number among the records
\* of the trace it has not yet credited, and no smaller one than the record
\* credited before it.
CreditsInHopOrder ==
    [][/\ \A n \in (Len(routes) + 1)..Len(routes') : routes'[n].hop = 0
       /\ \A p \in RepProcs :
            TurnsToRecord(p)
            => /\ \A m \in rep'[p].rows : routes[rep'[p].cur].hop <= routes[m].hop
               /\ rep[p].pc = "route"
                  => routes[rep[p].cur].hop <= routes[rep'[p].cur].hop]_vars

\* a broadcast has written its self-route and a neighbor record, and the
\* report for the two-hop trace turns to the hop-1 record, stored first,
\* after the hop-0 record
CreditsInHopOrderWitness ==
    /\ \E b \in BrdProcs : brd[b].pc = "done" /\ Len(RecordsOf(routes, brd[b].trace)) >= 2
    /\ \E p \in RepProcs :
          /\ rep[p].pc = "select"
          /\ rep[p].trace = "tr-0"
          /\ rep[p].rows = {}
          /\ routes[rep[p].cur].hop = 1

\* C20: no read operation on hyphal memory (search, collect, list by agent,
\* get by id) returns a row whose expires_at lies in the past at the time of
\* the read, whether or not cleanup has run since the row expired.
NoExpiredRowReturned ==
    \A r \in lastRead.rows : r.expires_at = NoTime \/ r.expires_at >= lastRead.at

(***************************************************************************)
(* C21: store_memory sets expires_at = now + TTL whenever a TTL is         *)
(* supplied, for every supplied value including 0, and sets expires_at to  *)
(* null only when no TTL is supplied.                                      *)
(***************************************************************************)
ExpiryForSuppliedTtl ==
    [][\A a \in AgentIds, ttl \in TtlHoursChoices :
          store_memory("tX", a, "e1", ttl) =>
             memory'[FreshMemories[used.stores + 1]].expires_at = IF ttl = {} THEN NoTime ELSE now + HoursOf(ttl) * Hour]_vars

(***************************************************************************)
(* C22: with diversify on and more candidate rows than K, collect returns  *)
(* at most K rows, taken in rank order, no two of which come from the same *)
(* source agent.                                                           *)
(***************************************************************************)
DiversifiedCollect ==
    /\ lastRead.op = "collect"
    /\ lastRead.diversify
    /\ Len(lastRead.fetched) > lastRead.top_k

DiverseSourceAgents ==
    DiversifiedCollect =>
       /\ Len(lastRead.source_agents) <= lastRead.top_k
       /\ \A i, j \in DOMAIN lastRead.source_agents :
             i # j => lastRead.source_agents[i] # lastRead.source_agents[j]

(***************************************************************************)
(* C23: check_rate_limit returns allowed, with remaining = limit and       *)
(* retry_after = 0, whenever the cache is not connected or a cache         *)
(* operation raises, for every tenant and limit.                           *)
(***************************************************************************)
FailsOpen ==
    lastCheck.failed =>
       lastCheck.allowed /\ lastCheck.remaining = lastCheck.limit /\ lastCheck.retry_after = 0

\* a cache operation raised on a request whose tenant had used up its limit
FailsOpenWitness ==
    /\ lastCheck.failed
    /\ limiterRedis
    /\ lastCheck.count >= lastCheck.limit
    /\ lastCheck.allowed

(***************************************************************************)
(* C24: with the cache available, in every interval of 60 seconds at most  *)
(* `limit` requests of a tenant are answered allowed, also when the        *)
(* interval straddles a minute boundary.                                   *)
(***************************************************************************)
AllowedWithin(tenant_id, start) ==
    {i \in DOMAIN allowedLog :
        /\ allowedLog[i].tenant = tenant_id
        /\ start <= allowedLog[i].at
        /\ allowedLog[i].at < start + 60}

AtMostLimitPerMinute ==
    \A i \in DOMAIN allowedLog :
       Cardinality(AllowedWithin(allowedLog[i].tenant, allowedLog[i].at))
          <= RateLimitOf(allowedLog[i].tenant)

(***************************************************************************)
(* C25: the neighbor cap used for a broadcast of a tenant equals           *)
(* clamp(n / 10, 20, 50), n being that tenant's own edge count as observed *)
(* within the preceding 5 minutes, never another tenant's.  Where nothing  *)
(* writes the edge table, n is the tenant's present edge count.            *)
(***************************************************************************)
OwnEdgeCount(t) == Cardinality({k \in DOMAIN edges : k[1] = t})

CapFromOwnEdgeCount ==
    \A b \in BrdProcs :
       brd[b].pc \in {"edges", "agents"} =>
          brd[b].limit = DynamicLimit(OwnEdgeCount(brd[b].tenant))

(***************************************************************************)
(* C26: MMR selection with k smaller than the number of candidates starts  *)
(* with the highest-scoring candidate and then repeatedly adds the         *)
(* remaining candidate that maximises lambda * score(i) - (1 - lambda) *   *)
(* max over the selected j of sim(i, j), until k are selected.             *)
(***************************************************************************)
StatedMmr(i, selected) ==
    LET sims == {MatrixSimilarity(i.emb, j.emb) : j \in selected}
    IN  LAMBDA_DIVERSITY * i.score
           - (100 - LAMBDA_DIVERSITY) * (CHOOSE x \in sims : \A y \in sims : x >= y)

MmrPenaltyIsMaxSimilarity ==
    routing.pc = "selected" =>
       LET all == SeqToSet(routing.scored)
           before(n) == {routing.out[m] : m \in 1..(n - 1)}
       IN  /\ Len(routing.out) = routing.k
           /\ \A i \in all : i.score <= routing.out[1].score
           /\ \A n \in 2..routing.k :
                 /\ routing.out[n] \in all \ before(n)
                 /\ \A i \in all \ before(n) :
                       StatedMmr(i, before(n)) <= StatedMmr(routing.out[n], before(n))

(***************************************************************************)
(* C27: when exploration fires in route_nutrient, the result is the        *)
(* selection made before exploration with its lowest-scoring member        *)
(* replaced by a neighbor of the below-threshold pool and every other      *)
(* member unchanged; without exploration, or with an empty selection or    *)
(* pool, the selection is returned unchanged.                              *)
(***************************************************************************)
BelowThreshold ==
    {x \in {[id |-> nb.id, score |-> calculate_routing_score(routing.emb, routing.hints, nb),
             emb |-> nb.profile_embedding] : nb \in routing.neighbors} :
        x.score < THRESHOLD_MIN}

\* the selections route_nutrient can make before exploration
Unexplored == route_nutrient(routing.emb, routing.hints, routing.neighbors, FALSE)

ExplorationReplacesLowest ==
    routing.pc = "routed" =>
       \E q \in Unexplored :
          IF routing.explore /\ q # <<>> /\ BelowThreshold # {}
          THEN \E pos \in DOMAIN q, x \in BelowThreshold :
                  /\ \A n \in DOMAIN q : q[pos].score <= q[n].score
                  /\ routing.out = [q EXCEPT ![pos] = x]
          ELSE routing.out = q

(***************************************************************************)
(* C28: after the shutdown handler runs, the background decay task         *)
(* terminates, at the latest within the iteration in progress,             *)
(* stop_decay_task returns, and no decay tick mutates an edge afterwards.  *)
(***************************************************************************)
ShutdownStopsDecay ==
    /\ (server = "closed") ~> (server = "stopped")
    /\ [](server = "stopped" => ~decayTask.alive)
    /\ [][server = "stopped" => edges' = edges /\ dec' = dec]_vars

\* the task was cancelled inside an iteration, with rows still to decay
ShutdownStopsDecayWitness ==
    /\ server = "stopped"
    /\ dec["tick"].pc = "loop"
    /\ dec["tick"].rows # {}

(***************************************************************************)
(* C29: if a decay tick raises, the error is logged and the background     *)
(* task stays alive: absent shutdown it is back in its sleep, from which   *)
(* the next tick starts, for any number of consecutive failing ticks.      *)
(***************************************************************************)
TaskSurvivesFailedTicks ==
    /\ [](decayTask.failures > 0 /\ server = "running" => TaskRuns)
    /\ [][TickRaises => TaskRuns' /\ dec'["tick"].pc = "idle"]_vars

\* after two failing ticks in a row the next tick is under way
TaskSurvivesFailedTicksWitness ==
    /\ decayTask.failures = 2
    /\ server = "running"
    /\ dec["tick"].pc = "loop"

(***************************************************************************)
(* C30: once validation has rejected an API key because it expired or was  *)
(* revoked, the key is never accepted as valid again, whatever creations,  *)
(* rotations and revocations follow.                                       *)
(***************************************************************************)
RejectedKeyStaysRejected ==
    lastValidation.valid => lastValidation.key \notin rejected

(***************************************************************************)
(* C31: bootstrap_admin_key hands out a bootstrap key at most once: over   *)
(* any sequence or interleaving of calls, also after the first key was     *)
(* revoked, at most one call returns a key.                                *)
(***************************************************************************)
BootstrapAtMostOnce == Cardinality(bootKeys) <= 1

(***************************************************************************)
(* C32: POST /v1/edges:decay called with the key of tenant tX changes or   *)
(* deletes only edges of tX: every edge of another tenant keeps its        *)
(* existence and its weight.                                               *)
(***************************************************************************)
OtherTenantsEdgesKept(tenant_id) ==
    \A k \in DOMAIN edges :
        k[1] # tenant_id => k \in DOMAIN edges' /\ edges'[k].w = edges[k].w

ManualDecayStaysInTenant ==
    [][\A d \in DecProcs : trigger_decay("tX", d) => OtherTenantsEdgesKept("tX")]_vars

(***************************************************************************)
(* C33: the capability boost of a neighbor is 0.05 * min(n, 4), where n is *)
(* the number of distinct tool hints of the nutrient that occur in the     *)
(* neighbor's capabilities; repeating a hint does not raise the boost.     *)
(***************************************************************************)
StatedBoost(hints, caps) ==
    CAPABILITY_BOOST_PER_MATCH
        * Min2(Cardinality(SeqToSet(hints) \cap caps), CAPABILITY_BOOST_MAX_MATCHES)

BoostCountsDistinctHints ==
    routing.pc = "scored" =>
        \A nb \in routing.neighbors :
            routing.out[1].capability_boost = StatedBoost(routing.hints, nb.capabilities)

(***************************************************************************)
(* C34: a credit that an outcome report writes to an edge while a decay    *)
(* tick that has already read the edge is in progress survives the tick:   *)
(* the tick leaves the credited edge in place, with the credited weight or *)
(* with the decay of the credited weight, never with the value computed    *)
(* from its earlier read.                                                  *)
(***************************************************************************)
CreditedSinceRead(d, k) ==
    /\ k \in DOMAIN edges /\ k \in DOMAIN dec[d].start
    /\ edges[k].last_update > dec[d].start[k].last_update

CreditSurvivesTick ==
    [][\A d \in DecProcs :
          DecayStep(d) =>
             \A r \in dec[d].rows :
                 CreditedSinceRead(d, r.key) =>
                    /\ r.key \in DOMAIN edges'
                    /\ edges'[r.key].w \in {edges[r.key].w, DecayedWeight(edges[r.key].w, r.age)}]_vars

(***************************************************************************)
(* C35: when two outcome reports whose traces traverse the same edge that  *)
(* does not exist yet are processed concurrently, both are answered 200    *)
(* (neither 500), and every route record of both traces has been credited. *)
(***************************************************************************)
ConcurrentCreationSucceeds ==
    \A p \in RepProcs :
        (rep[p].pc = "done" /\ RoutesOfTrace(rep[p].trace) # {})
        => /\ rep[p].status = 200
           /\ \A n \in RoutesOfTrace(rep[p].trace) : routes[n].outcome_score # -1

(***************************************************************************)
(* C36: reporting the outcome of a trace a second time does not credit the *)
(* traversed edges again: a report's step for a route record whose         *)
(* outcome_score is filled leaves the edges as they are, and a filled      *)
(* outcome_score is not overwritten.                                       *)
(***************************************************************************)
Filled(n) == routes[n].outcome_score # -1

CreditedAtMostOnce ==
    [][/\ \A p \in RepProcs :
             (OutcomeUpdateEdge(p) /\ Filled(rep[p].cur)) => edges' = edges
       /\ \A n \in DOMAIN routes :
             Filled(n) => routes'[n].outcome_score = routes[n].outcome_score]_vars

(***************************************************************************)
(* C39: the result of registering agent id a for tenant X, the status of   *)
(* the answer and the stored agent, is the same whether or not another     *)
(* tenant has registered the same id: it is the result the registration    *)
(* has on the documents of tenant X alone.                                 *)
(***************************************************************************)
OwnDocs(t) ==
    [a \in {x \in DOMAIN agents : agents[x].tenant_id = t} |-> agents[a]]

RegistrationIgnoresOtherTenants ==
    [][RegisterStore =>
          LET r == lastRegister
              alone == RegisterWrite(OwnDocs(r.tenant), r)
          IN  /\ lastRegister'.status = alone.status
              /\ r.agent_id \in DOMAIN agents'
              /\ agents'[r.agent_id] = alone.docs[r.agent_id]]_vars

(***************************************************************************)
(* C37: starting from an empty edge table with two registered agents of    *)
(* one tenant, the operations of the API (register, broadcast, outcome     *)
(* report, decay, prune) reach a state that holds an edge between two      *)
(* distinct agents.  SelfLoopsOnly is the opposite: every edge the         *)
(* operations create leads from an agent to itself.                        *)
(***************************************************************************)
EdgeBetweenDistinctAgents == \E k \in DOMAIN edges : k[2] # k[3]

SelfLoopsOnly == ~EdgeBetweenDistinctAgents

FailedBroadcastLeavesNothing ==
    \A b \in BrdProcs :
        (brd[b].pc = "done" /\ brd[b].status # 200)
        => /\ \A n \in nutrients : n.id # brd[b].nutrient
           /\ \A i \in DOMAIN routes : routes[i].trace # brd[b].trace

====
